---- MODULE Spec2Model ----
(***************************************************************************)
(* A model of the facets_atlasmaker pipeline (PAIR-code/facets):           *)
(*   convert.py       ImageConvertSettings, ImageConverter                 *)
(*   atlasmaker_io.py get_image (HTTP retry loop)                          *)
(*   parallelize.py   get_and_convert_image, get_and_convert_images_parallel*)
(*   montage.py       SpriteAtlasGenerator                                 *)
(*   atlasmaker.py    main                                                 *)
(* and of facets_overview/python/base_feature_statistics_generator.py:     *)
(*   _ParseExample, _GetEntries                                            *)
(* The code is Python 2 (urlparse import, absl): round() rounds halves     *)
(* away from zero, and convert.py uses true division.                      *)
(*                                                                         *)
(* Every specification below uses the same variables; a specification      *)
(* leaves the variables of the other components at their initial value.    *)
(***************************************************************************)
EXTENDS Integers, Sequences, FiniteSets, TLC

VARIABLES
  \* ---- convert.py ----
  cpc,            \* position in: ImageConvertSettings() ; ImageConverter() ; convert()
  settings_args,  \* the arguments handed to ImageConvertSettings.__init__
  settings,       \* the ImageConvertSettings object (NoSettings before/without one)
  error_messages, \* the list _validate_settings built (raised inside the ValueError)
  orig_img,       \* ImageConverter._orig_img, the caller's image object
  orig_before,    \* the same image as it was when handed to ImageConverter
  converted,      \* what convert() returned / raised
  \* ---- atlasmaker_io.get_image ----
  fetch,          \* the frame of one get_image call
  \* ---- parallelize.py ----
  LOAD_TRUNCATED_IMAGES,  \* PIL.ImageFile.LOAD_TRUNCATED_IMAGES, process-wide
  tasks,          \* the get_and_convert_image invocations, by index
  batch,          \* the frame of get_and_convert_images_parallel (joblib.Parallel)
  \* ---- montage.py ----
  atlas,          \* the SpriteAtlasGenerator object and the frame of create_atlas
  \* ---- atlasmaker_io._check_src_list_dups ----
  srclist,        \* the frame of one _check_src_list_dups call
  \* ---- atlasmaker.py ----
  main,           \* the frame of main(): flags, position, what it has done so far
  \* ---- facets_overview: base_feature_statistics_generator.py ----
  overview        \* the frame of _GetEntries / of a series of _ParseExample calls

vars == <<cpc, settings_args, settings, error_messages, orig_img, orig_before,
          converted, fetch, LOAD_TRUNCATED_IMAGES, tasks, batch, atlas,
          srclist, main, overview>>

convert_vars == <<cpc, settings_args, settings, error_messages, orig_img,
                  orig_before, converted>>

(***************************************************************************)
(* Bounds of the model                                                     *)
(***************************************************************************)
\* source images are 1..MaxSrcDim pixels wide and high
MaxSrcDim == 12
\* target sizes go up to _REQUIRED_MIN_DIMENSION + MaxExtraDim
MaxExtraDim == 1
\* http_max_retries is drawn from 0..MaxRetries
MaxRetries == 3
\* number of direct calls of get_and_convert_image in one process
MaxCalls == 2
\* a batch has up to MaxBatch locations and runs on up to MaxJobs workers
MaxBatch == 3
MaxJobs == 2
\* an atlas is made of up to MaxImages results
MaxImages == 5
\* a source list has up to MaxLocations lines
MaxLocations == 4
\* create_atlas is called up to MaxCreateCalls times on a generator
MaxCreateCalls == 2
\* _ParseExample is applied to up to MaxExamples examples in a row
MaxExamples == 3

(***************************************************************************)
(* Python helpers                                                          *)
(***************************************************************************)
Min(a, b) == IF a <= b THEN a ELSE b
Max(a, b) == IF a >= b THEN a ELSE b

\* all sequences of length n over S
SeqsOfLen(S, n) == [1..n -> S]

\* Python 2 round(num/den) for den > 0: nearest integer, halves away from zero.
round(num, den) ==
  IF num >= 0 THEN (2 * num + den) \div (2 * den)
  ELSE -((2 * (-num) + den) \div (2 * den))

\* str.lower() / str.upper() on the format names the model uses.
lower(s) ==
  CASE s = "PNG" -> "png"
    [] s = "Png" -> "png"
    [] s = "JPEG" -> "jpeg"
    [] OTHER -> s
upper(s) ==
  CASE s = "png" -> "PNG"
    [] s = "Png" -> "PNG"
    [] s = "jpeg" -> "JPEG"
    [] OTHER -> s

(***************************************************************************)
(* convert.py: ImageConvertSettings                                        *)
(***************************************************************************)
DEFAULT_OPACITY == 0
_REQUIRED_MIN_DIMENSION == 10

\* position components are rationals n / PosDen
PosDen == 4

NoSettings == [valid |-> FALSE]

MSG_POSITION == "Position must be a percent of width/height with values ranging from 0 to 1.\n"
MSG_COLOR == "RGB and opacity values must be between (0, 255).\n"
\* the height check reuses the text of the width check (convert.py:79)
MSG_WIDTH == "Desired width must be greater than 10 pixels.\n"
MSG_HEIGHT == "Desired width must be greater than 10 pixels.\n"

\* one message per offending element of vals, in order
RECURSIVE _range_errors(_, _, _, _)
_range_errors(vals, lo, hi, msg) ==
  IF vals = <<>> THEN <<>>
  ELSE (IF Head(vals) < lo \/ Head(vals) > hi THEN <<msg>> ELSE <<>>)
       \o _range_errors(Tail(vals), lo, hi, msg)

\* ImageConvertSettings.__init__, the assignments (convert.py:49-61)
ImageConvertSettings(a) ==
  [valid |-> TRUE,
   format |-> a.img_format,
   width |-> a.width,
   height |-> a.height,
   opacity |-> a.opacity,
   bg_mode |-> "RGBA",
   bg_color |-> <<a.bg_color_rgb[1], a.bg_color_rgb[2], a.bg_color_rgb[3], a.opacity>>,
   position |-> a.position,
   preserve_aspect_ratio |-> a.preserve_aspect_ratio,
   resize_if_larger |-> a.resize_if_larger]

\* a variant that does not look at the height
_validate_settings_without_height(s) ==
  _range_errors(s.position, 0, PosDen, MSG_POSITION)
  \o _range_errors(s.bg_color, 0, 255, MSG_COLOR)
  \o (IF s.width < _REQUIRED_MIN_DIMENSION THEN <<MSG_WIDTH>> ELSE <<>>)

\* the list of messages _validate_settings collects; it raises iff non-empty
_validate_settings(s) ==
  _range_errors(s.position, 0, PosDen, MSG_POSITION)
  \o _range_errors(s.bg_color, 0, 255, MSG_COLOR)
  \o (IF s.width < _REQUIRED_MIN_DIMENSION THEN <<MSG_WIDTH>> ELSE <<>>)
  \o (IF s.height < _REQUIRED_MIN_DIMENSION THEN <<MSG_HEIGHT>> ELSE <<>>)

(***************************************************************************)
(* PIL images, as far as the pipeline reads them.                          *)
(*   id      object identity: "orig" is the caller's object, "new" a fresh *)
(*           one                                                           *)
(*   size    (width, height)                                               *)
(*   format  Image.format ("NONE" for an image not read from a file)       *)
(*   defect  of the file behind a lazily opened image: "truncated" makes   *)
(*           load() raise IOError unless LOAD_TRUNCATED_IMAGES, "corrupt"  *)
(*           makes it raise a non-IOError (PIL: SyntaxError, struct.error) *)
(*   pixels  what the pixel data is: "decoded" (the file's), "thumbnail"   *)
(*           (the file's, shrunk in place), "fit" (ImageOps.fit output),   *)
(*           "canvas" (Image.new, possibly with one paste)                 *)
(*   bg      fill color of a canvas, <<>> otherwise                        *)
(*   box     <<x, y, w, h>>: where a canvas was pasted on and the size of  *)
(*           the pasted image; <<>> otherwise                              *)
(*   src     for "fit"/"canvas": size of the source the pixels came from   *)
(***************************************************************************)
NoColor == <<>>
NoBox == <<>>

SourceImage(w, h, fmt, defect) ==
  [id |-> "orig", size |-> <<w, h>>, format |-> fmt, defect |-> defect,
   pixels |-> "decoded", bg |-> NoColor, box |-> NoBox, src |-> <<w, h>>]

\* Image.new(mode, size, color)
Image_new(size, color) ==
  [id |-> "new", size |-> size, format |-> "NONE", defect |-> "none",
   pixels |-> "canvas", bg |-> color, box |-> NoBox, src |-> <<>>]

\* bkgd.paste(img, offset): in place; PIL clips the pasted box to the canvas
paste(bkgd, img, offset) ==
  [bkgd EXCEPT !.box = <<offset[1], offset[2], img.size[1], img.size[2]>>,
               !.src = img.src]

\* ImageOps.fit(image, size, centering): a new image of exactly `size`
ImageOps_fit(img, size, centering) ==
  [id |-> "new", size |-> size, format |-> "NONE", defect |-> "none",
   pixels |-> "fit", bg |-> NoColor,
   box |-> <<centering[1], centering[2]>>, src |-> img.size]

\* Image.thumbnail(size) (PIL < 7): the size it shrinks the image to, in place
thumbnail_size(size, max_size) ==
  LET x0 == size[1]
      y0 == size[2]
      y1 == IF x0 > max_size[1] THEN Max((y0 * max_size[1]) \div x0, 1) ELSE y0
      x1 == IF x0 > max_size[1] THEN max_size[1] ELSE x0
      x2 == IF y1 > max_size[2] THEN Max((x1 * max_size[2]) \div y1, 1) ELSE x1
      y2 == IF y1 > max_size[2] THEN max_size[2] ELSE y1
  IN <<x2, y2>>

thumbnail(img, max_size) ==
  LET s == thumbnail_size(img.size, max_size)
  IN IF s = img.size THEN img
     ELSE [img EXCEPT !.size = s, !.pixels = "thumbnail"]

\* Image.load() on a lazily opened file: the exception it raises, or "none"
load(img, allow_truncated) ==
  CASE img.defect = "truncated" /\ ~allow_truncated -> "IOError"
    [] img.defect = "corrupt" -> "SyntaxError"
    [] OTHER -> "none"

(***************************************************************************)
(* convert.py: ImageConverter                                              *)
(***************************************************************************)
NoImage ==
  [id |-> "None", size |-> <<>>, format |-> "NONE", defect |-> "none",
   pixels |-> "none", bg |-> NoColor, box |-> NoBox, src |-> <<>>]

\* what a call gave back: the image it returned (raised = "none") or the
\* exception it raised, the image object it was given as the call left it,
\* and the branch of convert() taken
Returned(img, orig, branch) ==
  [raised |-> "none", image |-> img, orig |-> orig, branch |-> branch]
Raised(err, orig, branch) ==
  [raised |-> err, image |-> NoImage, orig |-> orig, branch |-> branch]

_desired_size(S) == <<S.width, S.height>>
_desired_format(S) == lower(S.format)
\* ImageOps.fit's default centering (0.5, 0.5), in units of 1/PosDen
CENTER == <<PosDen \div 2, PosDen \div 2>>

\* a variant that centres the shrunk image whatever the position
_resize_thumbnail_keep_aspect_ratio_centred(img, S, allow_truncated) ==
  LET want == _desired_size(S)
      err == load(img, allow_truncated)
      shrunk == thumbnail(img, want)
      offset == <<round((want[1] - shrunk.size[1]) * CENTER[1], PosDen),
                  round((want[2] - shrunk.size[2]) * CENTER[2], PosDen)>>
      bkgd_img == Image_new(want, S.bg_color)
  IN IF err # "none" THEN Raised(err, img, "shrink_pad")
     ELSE Returned(paste(bkgd_img, shrunk, offset), shrunk, "shrink_pad")

_resize_thumbnail_keep_aspect_ratio(img, S, allow_truncated) ==
  LET want == _desired_size(S)
      err == load(img, allow_truncated)
      shrunk == thumbnail(img, want)
      offset == <<round((want[1] - shrunk.size[1]) * S.position[1], PosDen),
                  round((want[2] - shrunk.size[2]) * S.position[2], PosDen)>>
      bkgd_img == Image_new(want, S.bg_color)
  IN IF err # "none" THEN Raised(err, img, "shrink_pad")
     ELSE Returned(paste(bkgd_img, shrunk, offset), shrunk, "shrink_pad")

_resize_thumbnail_and_crop(img, S, allow_truncated) ==
  LET err == load(img, allow_truncated)
  IN IF err # "none" THEN Raised(err, img, "shrink_crop")
     ELSE Returned(ImageOps_fit(img, _desired_size(S), S.position), img,
                   "shrink_crop")

_pad_to_larger_size(img, S, allow_truncated) ==
  LET want == _desired_size(S)
      err == load(img, allow_truncated)
      offset == <<round(want[1], 2), round(want[2], 2)>>
      bkgd_img == Image_new(want, S.bg_color)
  IN IF err # "none" THEN Raised(err, img, "pad")
     ELSE Returned(paste(bkgd_img, img, offset), img, "pad")

_resize_larger_dont_keep_aspect_ratio(img, S, allow_truncated) ==
  LET err == load(img, allow_truncated)
  IN IF err # "none" THEN Raised(err, img, "upscale_stretch")
     ELSE Returned(ImageOps_fit(img, _desired_size(S), CENTER), img,
                   "upscale_stretch")

\* the size the source is scaled to: resize_ratio = min(dw / orig_w, dh / orig_h)
\* as the fraction rn / rd; the width is computed from orig_h and the height
\* from orig_w (convert.py:238-239)
_resize_larger_new_size(size, want) ==
  LET orig_w == size[1]
      orig_h == size[2]
      byWidth == want[1] * orig_h <= want[2] * orig_w
      rn == IF byWidth THEN want[1] ELSE want[2]
      rd == IF byWidth THEN orig_w ELSE orig_h
  IN <<round(orig_h * rn, rd), round(orig_w * rn, rd)>>

\* a variant that returns the scaled image without padding it to the target
_resize_larger_keep_aspect_ratio_unpadded(img, S, allow_truncated) ==
  LET err == load(img, allow_truncated)
      new_size == _resize_larger_new_size(img.size, _desired_size(S))
  IN IF err # "none" THEN Raised(err, img, "upscale_pad")
     ELSE Returned(ImageOps_fit(img, new_size, CENTER), img, "upscale_pad")

_resize_larger_keep_aspect_ratio(img, S, allow_truncated) ==
  LET want == _desired_size(S)
      err == load(img, allow_truncated)
      new_size == _resize_larger_new_size(img.size, want)
      new_img == ImageOps_fit(img, new_size, CENTER)
      offset == <<round(want[1] - new_size[1], 2), round(want[2] - new_size[2], 2)>>
      bkgd_img == Image_new(want, S.bg_color)
  IN IF err # "none" THEN Raised(err, img, "upscale_pad")
     ELSE IF want = new_size THEN Returned(new_img, img, "upscale_pad")
     ELSE Returned(paste(bkgd_img, new_img, offset), img, "upscale_pad")

\* a variant whose no-op test looks at the size only
convert_noop_on_equal_size(img, S, allow_truncated) ==
  LET want == _desired_size(S)
  IN IF img.size = want
       THEN Returned(img, img, "noop")
     ELSE IF want[1] > img.size[1] /\ want[2] > img.size[2]
       THEN IF S.preserve_aspect_ratio /\ S.resize_if_larger
              THEN _resize_larger_keep_aspect_ratio(img, S, allow_truncated)
            ELSE IF S.resize_if_larger
              THEN _resize_larger_dont_keep_aspect_ratio(img, S, allow_truncated)
            ELSE _pad_to_larger_size(img, S, allow_truncated)
     ELSE IF S.preserve_aspect_ratio
       THEN _resize_thumbnail_keep_aspect_ratio(img, S, allow_truncated)
     ELSE _resize_thumbnail_and_crop(img, S, allow_truncated)

\* ImageConverter(img, S).convert()
convert(img, S, allow_truncated) ==
  LET want == _desired_size(S)
  IN IF img.size = want /\ img.format = upper(_desired_format(S))
       THEN Returned(img, img, "noop")
     ELSE IF want[1] > img.size[1] /\ want[2] > img.size[2]
       THEN IF S.preserve_aspect_ratio /\ S.resize_if_larger
              THEN _resize_larger_keep_aspect_ratio(img, S, allow_truncated)
            ELSE IF S.resize_if_larger
              THEN _resize_larger_dont_keep_aspect_ratio(img, S, allow_truncated)
            ELSE _pad_to_larger_size(img, S, allow_truncated)
     ELSE IF S.preserve_aspect_ratio
       THEN _resize_thumbnail_keep_aspect_ratio(img, S, allow_truncated)
     ELSE _resize_thumbnail_and_crop(img, S, allow_truncated)

(***************************************************************************)
(* atlasmaker_io.py: get_image                                             *)
(*                                                                         *)
(* A location is the path string split at "/": "/d/a.png" is               *)
(* <<"", "d", "a.png">>, "http://h/b.png" is <<"http:", "", "h", "b.png">>.*)
(***************************************************************************)
\* urlparse(location).scheme
urlparse_scheme(location) ==
  IF Len(location) >= 3 /\ location[2] = ""
    THEN CASE location[1] = "http:" -> "http"
           [] location[1] = "https:" -> "https"
           [] location[1] = "ftp:" -> "ftp"
           [] OTHER -> ""
    ELSE ""

\* a variant that catches ReadTimeout only
IsReadTimeout(exc) == exc = "ReadTimeout"
\* requests.exceptions: ConnectTimeout and ReadTimeout derive from Timeout,
\* InvalidURL does not
IsTimeout(exc) == exc \in {"Timeout", "ConnectTimeout", "ReadTimeout"}

\* the frame of a get_image call at entry.
\*   side_effect  what the successive requests.get / read / Image.open
\*                attempts do: "ok" or the exception raised
\*   resource     the image behind the location (NoImage: no such image)
get_image_call(location, resource, side_effect, http_max_retries, http_retry_interval) ==
  [pc |-> "enter", location |-> location, resource |-> resource,
   side_effect |-> side_effect,
   http_max_retries |-> http_max_retries,
   http_retry_interval |-> http_retry_interval,
   attempts |-> 0, call_count |-> 0, slept |-> 0,
   raised |-> "none", image |-> NoImage]

get_image_return(f, img) == [f EXCEPT !.pc = "done", !.image = img]
get_image_raise(f, exc) == [f EXCEPT !.pc = "done", !.raised = exc]

\* a variant that does not check the retry interval
get_image_enter_unchecked_interval(f) ==
  IF f.http_max_retries < 1 THEN get_image_raise(f, "ValueError")
  ELSE IF urlparse_scheme(f.location) \in {"http", "https"}
    THEN [f EXCEPT !.pc = "loop"]
  ELSE [f EXCEPT !.pc = "local"]

\* atlasmaker_io.py:132-136: argument checks, then the route by scheme
get_image_enter(f) ==
  IF f.http_max_retries < 1 THEN get_image_raise(f, "ValueError")
  ELSE IF f.http_retry_interval < 0 THEN get_image_raise(f, "ValueError")
  ELSE IF urlparse_scheme(f.location) \in {"http", "https"}
    THEN [f EXCEPT !.pc = "loop"]
  ELSE [f EXCEPT !.pc = "local"]

\* a variant that retries after any exception
get_image_loop_retry_any(f) ==
  IF f.attempts < f.http_max_retries - 1
    THEN LET n == f.call_count + 1
             outcome == f.side_effect[n]
             g == [f EXCEPT !.call_count = n]
         IN IF outcome = "ok" THEN get_image_return(g, f.resource)
            ELSE [g EXCEPT !.pc = "sleep"]
  ELSE [f EXCEPT !.pc = "final"]

\* a variant whose loop runs http_max_retries times before the final attempt
get_image_loop_one_more(f) ==
  IF f.attempts < f.http_max_retries
    THEN LET n == f.call_count + 1
             outcome == f.side_effect[n]
             g == [f EXCEPT !.call_count = n]
         IN IF outcome = "ok" THEN get_image_return(g, f.resource)
            ELSE IF IsTimeout(outcome) THEN [g EXCEPT !.pc = "sleep"]
            ELSE get_image_raise(g, outcome)
  ELSE [f EXCEPT !.pc = "final"]

\* one evaluation of the while condition and, when it holds, one pass of the
\* body up to the return, the raise or the sleep (atlasmaker_io.py:141-151)
get_image_loop(f) ==
  IF f.attempts < f.http_max_retries - 1
    THEN LET n == f.call_count + 1
             outcome == f.side_effect[n]
             g == [f EXCEPT !.call_count = n]
         IN IF outcome = "ok" THEN get_image_return(g, f.resource)
            ELSE IF IsTimeout(outcome) THEN [g EXCEPT !.pc = "sleep"]
            ELSE get_image_raise(g, outcome)
  ELSE [f EXCEPT !.pc = "final"]

\* time.sleep(http_retry_interval) returns; attempts += 1 (atlasmaker_io.py:149-152)
get_image_sleep(f) ==
  [f EXCEPT !.pc = "loop", !.attempts = @ + 1, !.slept = @ + 1]

\* the final attempt, outside any try (atlasmaker_io.py:153-156)
get_image_final(f) ==
  LET n == f.call_count + 1
      outcome == f.side_effect[n]
      g == [f EXCEPT !.call_count = n]
  IN IF outcome = "ok" THEN get_image_return(g, f.resource)
     ELSE get_image_raise(g, outcome)

\* Image.open(location) on a local path (atlasmaker_io.py:157-162)
get_image_local(f) ==
  IF f.resource = NoImage THEN get_image_raise(f, "IOError")
  ELSE get_image_return(f, f.resource)

\* the whole call, from any point of it to its return or raise
RECURSIVE get_image(_)
get_image(f) ==
  CASE f.pc = "enter" -> get_image(get_image_enter(f))
    [] f.pc = "loop" -> get_image(get_image_loop(f))
    [] f.pc = "sleep" -> get_image(get_image_sleep(f))
    [] f.pc = "final" -> get_image(get_image_final(f))
    [] f.pc = "local" -> get_image(get_image_local(f))
    [] OTHER -> f

(***************************************************************************)
(* The conversion component on its own: settings are constructed from      *)
(* arguments, a converter is constructed around a source image, convert()  *)
(* is called once.                                                         *)
(***************************************************************************)
TargetDims == (_REQUIRED_MIN_DIMENSION - 1) .. (_REQUIRED_MIN_DIMENSION + MaxExtraDim)
Positions == {<<0, 0>>, <<2, 2>>, <<4, 4>>, <<1, 3>>, <<-1, 2>>, <<2, 5>>}
SettingsArgs ==
  [img_format : {"png", "PNG"},
   width : TargetDims,
   height : TargetDims,
   position : Positions,
   bg_color_rgb : {<<255, 255, 255>>, <<0, 256, 0>>},
   opacity : {DEFAULT_OPACITY, 255, 256},
   resize_if_larger : BOOLEAN,
   preserve_aspect_ratio : BOOLEAN]

SourceFormats == {"PNG", "JPEG"}
SourceImages ==
  {SourceImage(w, h, f, "none") : w \in 1..MaxSrcDim, h \in 1..MaxSrcDim, f \in SourceFormats}

NoResult == [raised |-> "none", image |-> NoImage, orig |-> NoImage, branch |-> "none"]

ConvertInit ==
  /\ cpc = "args"
  /\ settings_args \in SettingsArgs
  /\ settings = NoSettings
  /\ error_messages = <<>>
  /\ orig_img = NoImage
  /\ orig_before = NoImage
  /\ converted = NoResult

\* settings = ImageConvertSettings(...): __init__ ends in _validate_settings,
\* which raises ValueError(error_messages) when it found anything
NewImageConvertSettings ==
  /\ cpc = "args"
  /\ LET s == ImageConvertSettings(settings_args)
         msgs == _validate_settings(s)
     IN /\ error_messages' = msgs
        /\ settings' = IF msgs = <<>> THEN s ELSE NoSettings
        /\ cpc' = IF msgs = <<>> THEN "settings" ELSE "ValueError"
  /\ UNCHANGED <<settings_args, orig_img, orig_before, converted>>

\* ImageConverter(image, settings)
NewImageConverter ==
  /\ cpc = "settings"
  /\ \E img \in SourceImages :
       /\ orig_img' = img
       /\ orig_before' = img
  /\ cpc' = "converter"
  /\ UNCHANGED <<settings_args, settings, error_messages, converted>>

\* image_converter.convert()
Convert ==
  /\ cpc = "converter"
  /\ LET r == convert(orig_img, settings, LOAD_TRUNCATED_IMAGES)
     IN /\ converted' = r
        /\ orig_img' = r.orig
  /\ cpc' = "converted"
  /\ UNCHANGED <<settings_args, settings, error_messages, orig_before>>

(***************************************************************************)
(* get_image on its own: one call, with the arguments, the location and    *)
(* the behaviour of the successive HTTP attempts drawn at the start.       *)
(***************************************************************************)
LOCAL_A == <<"", "d", "a.png">>
LOCAL_B == <<"", "e", "a.png">>
LOCAL_TRUNCATED == <<"", "d", "cut.png">>
LOCAL_TRUNCATED_FIT == <<"", "d", "cut_fit.png">>
LOCAL_CORRUPT == <<"", "d", "bad.png">>
LOCAL_MISSING == <<"", "d", "none.png">>
URL_HTTP == <<"http:", "", "h", "b.png">>
URL_HTTPS == <<"https:", "", "h", "c.png">>
URL_FTP == <<"ftp:", "", "h", "a.png">>

\* what is behind each location: the image Image.open would find there
\* (opened lazily: a defect of the file shows when the pixels are loaded)
Resource(location) ==
  CASE location = LOCAL_A -> SourceImage(12, 8, "PNG", "none")
    [] location = LOCAL_B -> SourceImage(8, 12, "JPEG", "none")
    [] location = LOCAL_TRUNCATED -> SourceImage(12, 12, "PNG", "truncated")
    [] location = LOCAL_TRUNCATED_FIT ->
         SourceImage(_REQUIRED_MIN_DIMENSION, _REQUIRED_MIN_DIMENSION, "PNG", "truncated")
    [] location = LOCAL_CORRUPT -> SourceImage(12, 12, "PNG", "corrupt")
    [] location = URL_HTTP -> SourceImage(20, 20, "PNG", "none")
    [] location = URL_HTTPS -> SourceImage(8, 8, "JPEG", "none")
    [] OTHER -> NoImage

AttemptOutcomes == {"ok", "ConnectTimeout", "ReadTimeout", "InvalidURL"}

FetchInit ==
  \E location \in {LOCAL_A, LOCAL_MISSING, URL_HTTP, URL_HTTPS, URL_FTP},
     side_effect \in SeqsOfLen(AttemptOutcomes, MaxRetries + 1),
     http_max_retries \in 0..MaxRetries,
     http_retry_interval \in {-1, 0, 3} :
    fetch = get_image_call(location, Resource(location), side_effect,
                           http_max_retries, http_retry_interval)

GetImageEnter ==
  /\ fetch.pc = "enter"
  /\ fetch' = get_image_enter(fetch)

GetImageLoop ==
  /\ fetch.pc = "loop"
  /\ fetch' = get_image_loop(fetch)

GetImageSleep ==
  /\ fetch.pc = "sleep"
  /\ fetch' = get_image_sleep(fetch)

GetImageFinal ==
  /\ fetch.pc = "final"
  /\ fetch' = get_image_final(fetch)

GetImageLocal ==
  /\ fetch.pc = "local"
  /\ fetch' = get_image_local(fetch)

(***************************************************************************)
(* parallelize.py: get_and_convert_image                                   *)
(***************************************************************************)
\* defaults of the signatures (parallelize.py:12, atlasmaker_io.py:116)
DEFAULT_HTTP_MAX_RETRIES == 2
DEFAULT_HTTP_RETRY_INTERVAL == 3

\* str(e)
str(exc) ==
  CASE exc = "IOError" -> "cannot identify image file / image file is truncated"
    [] exc = "ValueError" -> "Max retries must be 1 or greater."
    [] exc = "ConnectTimeout" -> "connect timeout"
    [] exc = "ReadTimeout" -> "read timeout"
    [] exc = "InvalidURL" -> "invalid URL"
    [] OTHER -> exc

\* what a task gave back: kind "returned" with the tuple (image, status), or
\* kind "raised" with the exception that left the function
NoOutput == [kind |-> "none", image |-> NoImage, status |-> "", exc |-> "none"]
task_return(img, status) ==
  [kind |-> "returned", image |-> img, status |-> status, exc |-> "none"]
task_raise(exc) ==
  [kind |-> "raised", image |-> NoImage, status |-> "", exc |-> exc]

\* the frame of one call get_and_convert_image(image_location, settings,
\* allow_truncated_images, disk_cache, request_timeout, http_max_retries);
\* side_effect is what the HTTP attempts for this location will do
task_call(image_location, side_effect, allow_truncated_images, disk_cache, http_max_retries) ==
  [pc |-> "enter", worker |-> 0,
   image_location |-> image_location, side_effect |-> side_effect,
   allow_truncated_images |-> allow_truncated_images,
   disk_cache |-> disk_cache, http_max_retries |-> http_max_retries,
   src_image |-> NoImage, out |-> NoOutput]

\* the call ends: its worker (if it ran on one) is free again
task_done(t, out) == [t EXCEPT !.pc = "done", !.out = out, !.worker = 0]

\* parallelize.py:42-50: the disk_cache check; the task itself
task_enter(t) ==
  IF t.disk_cache THEN task_done(t, task_raise("NotImplementedError"))
  ELSE [t EXCEPT !.pc = "fetch"]

\* parallelize.py:45-47: the value the process-wide flag has after the task
\* passed these lines
task_enter_flag(t, flag) ==
  IF ~t.disk_cache /\ t.allow_truncated_images THEN TRUE ELSE flag

\* parallelize.py:52-58: get_image with every Exception caught
task_after_fetch(t, f) ==
  IF f.raised # "none" THEN task_done(t, task_return(NoImage, str(f.raised)))
  ELSE [t EXCEPT !.pc = "convert", !.src_image = f.image]

\* the call of get_image as one step
task_fetch(t) ==
  task_after_fetch(t, get_image(get_image_call(t.image_location,
                                               Resource(t.image_location),
                                               t.side_effect, t.http_max_retries,
                                               DEFAULT_HTTP_RETRY_INTERVAL)))

\* the except clause of the conversion step
IsIOError(exc) == exc = "IOError"

\* parallelize.py:60-67: convert with IOError caught; `flag` is
\* LOAD_TRUNCATED_IMAGES as PIL reads it when it loads the pixels
task_convert(t, S, flag) ==
  LET r == convert(t.src_image, S, flag)
  IN IF r.raised = "none" THEN task_done(t, task_return(r.image, ""))
     ELSE IF IsIOError(r.raised) THEN task_done(t, task_return(NoImage, str(r.raised)))
     ELSE task_done(t, task_raise(r.raised))

\* one whole call in a process where LOAD_TRUNCATED_IMAGES is `flag` at entry
\* and no other call runs
get_and_convert_image(t, S, flag) ==
  LET e == task_enter(t)
      fl == task_enter_flag(t, flag)
      f == IF e.pc = "fetch" THEN task_fetch(e) ELSE e
  IN IF f.pc = "convert" THEN task_convert(f, S, fl) ELSE f

\* the settings every task is given: a 10 x 10 png, defaults otherwise
\* (as in parallelize_test.py, scaled down)
TaskSettings ==
  ImageConvertSettings(
    [img_format |-> "png", width |-> _REQUIRED_MIN_DIMENSION,
     height |-> _REQUIRED_MIN_DIMENSION, position |-> CENTER,
     bg_color_rgb |-> <<0, 0, 0>>, opacity |-> DEFAULT_OPACITY,
     resize_if_larger |-> FALSE, preserve_aspect_ratio |-> TRUE])

\* what the HTTP attempts for a location do, one after the other
SideEffect(location) ==
  CASE location = URL_HTTP -> [j \in 1..(MaxRetries + 1) |-> IF j = 1 THEN "ReadTimeout" ELSE "ok"]
    [] location = URL_HTTPS -> [j \in 1..(MaxRetries + 1) |-> "ConnectTimeout"]
    [] OTHER -> [j \in 1..(MaxRetries + 1) |-> "ok"]

\* the image_convert_settings argument of the calls: those of main() when the
\* calls are made by main()
image_convert_settings == IF main.pc = "idle" THEN TaskSettings ELSE main.settings

\* one step of task i, in any process or thread
TaskEnter(i) ==
  /\ batch.pc \in {"calls", "running"}
  /\ tasks[i].pc = "enter"
  /\ tasks' = [tasks EXCEPT ![i] = task_enter(@)]
  /\ LOAD_TRUNCATED_IMAGES' = task_enter_flag(tasks[i], LOAD_TRUNCATED_IMAGES)

TaskFetch(i) ==
  /\ batch.pc \in {"calls", "running"}
  /\ tasks[i].pc = "fetch"
  /\ tasks' = [tasks EXCEPT ![i] = task_fetch(@)]
  /\ UNCHANGED LOAD_TRUNCATED_IMAGES

TaskConvert(i) ==
  /\ batch.pc \in {"calls", "running"}
  /\ tasks[i].pc = "convert"
  /\ tasks' = [tasks EXCEPT ![i] = task_convert(@, image_convert_settings,
                                                LOAD_TRUNCATED_IMAGES)]
  /\ UNCHANGED LOAD_TRUNCATED_IMAGES

(***************************************************************************)
(* Calls of get_and_convert_image made directly, by the threads of one     *)
(* process: every call has its own arguments; the calls interleave freely  *)
(* (among them the runs where one call ends before the next begins).       *)
(***************************************************************************)
CallLocations ==
  {LOCAL_A, LOCAL_TRUNCATED, LOCAL_TRUNCATED_FIT, LOCAL_CORRUPT, LOCAL_MISSING,
   URL_HTTP, URL_HTTPS}

Calls ==
  {task_call(l, SideEffect(l), a, d, DEFAULT_HTTP_MAX_RETRIES) :
     l \in CallLocations, a \in BOOLEAN, d \in BOOLEAN}

CallsInit ==
  /\ tasks \in SeqsOfLen(Calls, MaxCalls)
  /\ batch = [pc |-> "calls"]
  /\ LOAD_TRUNCATED_IMAGES = FALSE

(***************************************************************************)
(* parallelize.py: get_and_convert_images_parallel                         *)
(*                                                                         *)
(* joblib.Parallel(n_jobs)(delayed(f)(...) for location in locations):     *)
(* the delayed calls are dispatched in input order to free workers, run    *)
(* concurrently, and complete in any order; the results are gathered in    *)
(* dispatch order; an exception raised by a call is re-raised by Parallel  *)
(* when that call's result is gathered, which ends the batch.              *)
(* With the threading backend the workers share LOAD_TRUNCATED_IMAGES;     *)
(* with processes each worker has a copy, which every task of the batch    *)
(* sets the same way, so one flag stands for both.                         *)
(***************************************************************************)
\* the frame of get_and_convert_images_parallel: one delayed call per location
parallel_call(image_src_locations, n_jobs, disk_cache, allow_truncated_images, http_max_retries) ==
  [pc |-> "running", image_src_locations |-> image_src_locations,
   n_jobs |-> n_jobs, disk_cache |-> disk_cache,
   allow_truncated_images |-> allow_truncated_images,
   http_max_retries |-> http_max_retries,
   completed |-> <<>>, outputs |-> <<>>, exc |-> "none"]

parallel_tasks(b) ==
  [i \in 1..Len(b.image_src_locations) |->
     [task_call(b.image_src_locations[i], SideEffect(b.image_src_locations[i]),
                b.allow_truncated_images, b.disk_cache, b.http_max_retries)
        EXCEPT !.pc = "pending"]]

Running(t) == t.pc \in {"enter", "fetch", "convert"}

\* the workers with no call in progress
free_workers(b, ts) ==
  {w \in 1..b.n_jobs : \A i \in DOMAIN ts : ~(Running(ts[i]) /\ ts[i].worker = w)}

\* the call dispatched next: the first one not yet dispatched
next_to_dispatch(ts) ==
  {i \in DOMAIN ts : ts[i].pc = "pending" /\ \A j \in 1..(i - 1) : ts[j].pc # "pending"}

\* a variant that gathers results as the calls complete
next_to_gather_as_completed(b, ts) ==
  IF Len(b.outputs) < Len(b.completed) THEN {b.completed[Len(b.outputs) + 1]} ELSE {}

\* the call whose result is gathered next: the first one not yet gathered,
\* once it is done
next_to_gather(b, ts) ==
  {i \in DOMAIN ts : i = Len(b.outputs) + 1 /\ ts[i].pc = "done"}

Dispatch ==
  /\ batch.pc = "running"
  /\ \E i \in next_to_dispatch(tasks), w \in free_workers(batch, tasks) :
       tasks' = [tasks EXCEPT ![i].pc = "enter", ![i].worker = w]
  /\ UNCHANGED <<batch, LOAD_TRUNCATED_IMAGES>>

\* a worker runs one step of its call; batch.completed notes the order in
\* which the calls end
Work ==
  /\ batch.pc = "running"
  /\ \E i \in DOMAIN tasks :
       /\ TaskEnter(i) \/ TaskFetch(i) \/ TaskConvert(i)
       /\ batch' = IF tasks'[i].pc = "done"
                     THEN [batch EXCEPT !.completed = Append(@, i)]
                     ELSE batch

Gather ==
  /\ batch.pc = "running"
  /\ \E i \in next_to_gather(batch, tasks) :
       batch' = IF tasks[i].out.kind = "raised"
                  THEN [batch EXCEPT !.pc = "raised", !.exc = tasks[i].out.exc]
                  ELSE [batch EXCEPT !.outputs =
                          Append(@, <<tasks[i].out.image, tasks[i].out.status>>)]
  /\ UNCHANGED <<tasks, LOAD_TRUNCATED_IMAGES>>

\* return outputs
ParallelReturn ==
  /\ batch.pc = "running"
  /\ Len(batch.outputs) = Len(batch.image_src_locations)
  /\ batch' = [batch EXCEPT !.pc = "returned"]
  /\ UNCHANGED <<tasks, LOAD_TRUNCATED_IMAGES>>

BatchLocations == {LOCAL_A, LOCAL_TRUNCATED, LOCAL_CORRUPT, LOCAL_MISSING}

ParallelInit ==
  /\ \E n \in 0..MaxBatch :
       \E locations \in SeqsOfLen(BatchLocations, n), n_jobs \in 1..MaxJobs,
          disk_cache \in BOOLEAN, allow_truncated_images \in BOOLEAN :
         batch = parallel_call(locations, n_jobs, disk_cache,
                               allow_truncated_images, DEFAULT_HTTP_MAX_RETRIES)
  /\ tasks = parallel_tasks(batch)
  /\ LOAD_TRUNCATED_IMAGES = FALSE

(***************************************************************************)
(* montage.py: SpriteAtlasSettings, SpriteAtlasGenerator                   *)
(*                                                                         *)
(* None is <<>> and an integer n is <<n>> where a value may be None.       *)
(* A result is the tuple <<image or NoImage, status>>.                     *)
(***************************************************************************)
None == <<>>

MANIFEST_IMAGE_FAIL_KEY == "errors"

\* os.path.basename: what follows the last "/"
basename(path) == IF Len(path) = 0 THEN "" ELSE path[Len(path)]

\* math.ceil(math.sqrt(n))
ceil_sqrt(n) == CHOOSE side \in 0..n : side * side >= n /\ \A t \in 0..(side - 1) : t * t < n

\* _identify_image_size: the size of the first image that is not None, or
\* None when there is no such image (the method then raises ValueError)
RECURSIVE _identify_image_size(_)
_identify_image_size(images_with_statuses) ==
  IF images_with_statuses = <<>> THEN None
  ELSE IF Head(images_with_statuses)[1] # NoImage
    THEN Head(images_with_statuses)[1].size
  ELSE _identify_image_size(Tail(images_with_statuses))

\* a variant that compares the lengths of the two lists only
_validate_inputs_lengths_only(a) ==
  IF Len(a.img_src_paths) # a.num_input_images THEN "ValueError" ELSE "none"

\* _validate_inputs: the ValueError it raises, "none" if it raises nothing
_validate_inputs(a) ==
  IF Len(a.img_src_paths) # a.num_input_images THEN "ValueError"
  ELSE IF \E k \in DOMAIN a.images_with_statuses :
            /\ a.images_with_statuses[k][1] # NoImage
            /\ a.images_with_statuses[k][1].size # a.img_width_height_px
    THEN "ValueError"
  ELSE "none"

\* the arguments of SpriteAtlasGenerator(...), before __init__ has run
atlas_call(images_with_statuses, img_src_paths, atlas_settings, default_img) ==
  [pc |-> "new",
   images_with_statuses |-> images_with_statuses,
   img_src_paths |-> img_src_paths,
   atlas_settings |-> atlas_settings,
   default_image |-> default_img,
   img_width_height_px |-> None, num_input_images |-> 0,
   atlas_width |-> 0, atlas_height |-> 0,
   image_idx |-> 0, row_idx |-> 0, col_idx |-> 0, failed_images_count |-> 0,
   montage |-> None, manifest |-> <<>>, exc |-> "none",
   returned |-> <<>>]

\* SpriteAtlasGenerator.__init__ (montage.py:76-87)
SpriteAtlasGenerator(a) ==
  LET size == _identify_image_size(a.images_with_statuses)
      b == [a EXCEPT !.img_width_height_px = size,
                     !.num_input_images = Len(a.images_with_statuses)]
  IN IF size = None THEN [a EXCEPT !.pc = "raised", !.exc = "ValueError"]
     ELSE IF _validate_inputs(b) # "none"
       THEN [b EXCEPT !.pc = "raised", !.exc = _validate_inputs(b)]
     ELSE [b EXCEPT !.pc = "ready"]

\* a variant that rounds the square root down
_generate_default_atlas_size_floor(a) ==
  LET side == ceil_sqrt(a.num_input_images)
      floor == IF side * side = a.num_input_images THEN side ELSE side - 1
  IN <<floor, floor>>

\* _generate_default_atlas_size
_generate_default_atlas_size(a) ==
  <<ceil_sqrt(a.num_input_images), ceil_sqrt(a.num_input_images)>>

\* a variant of create_atlas that goes on with the manifest of the call before
create_atlas_enter_keep_manifest(a) ==
  LET atlas_size_is_specified ==
        a.atlas_settings.height # None /\ a.atlas_settings.width # None
      side == _generate_default_atlas_size(a)
      atlas_size_pixels == <<side[1] * a.img_width_height_px[1],
                             side[2] * a.img_width_height_px[2]>>
  IN IF atlas_size_is_specified
       THEN [a EXCEPT !.pc = "raised", !.exc = "NotImplementedError"]
     ELSE [a EXCEPT !.pc = "loop",
                    !.atlas_width = side[1], !.atlas_height = side[2],
                    !.montage = [size |-> atlas_size_pixels,
                                 bg |-> <<255, 255, 255, 255>>,
                                 pastes |-> <<>>],
                    !.image_idx = 0, !.row_idx = 0, !.col_idx = 0,
                    !.failed_images_count = 0]

\* create_atlas up to the first pass of the loops of _create_single_atlas
\* (montage.py:126-158): the atlas size in images and pixels, the white canvas
create_atlas_enter(a) ==
  LET atlas_size_is_specified ==
        a.atlas_settings.height # None /\ a.atlas_settings.width # None
      side == _generate_default_atlas_size(a)
      atlas_size_pixels == <<side[1] * a.img_width_height_px[1],
                             side[2] * a.img_width_height_px[2]>>
  IN IF atlas_size_is_specified
       THEN [a EXCEPT !.pc = "raised", !.exc = "NotImplementedError"]
     ELSE [a EXCEPT !.pc = "loop",
                    !.atlas_width = side[1], !.atlas_height = side[2],
                    !.montage = [size |-> atlas_size_pixels,
                                 bg |-> <<255, 255, 255, 255>>,
                                 pastes |-> <<>>],
                    !.manifest = <<>>,
                    !.image_idx = 0, !.row_idx = 0, !.col_idx = 0,
                    !.failed_images_count = 0]

\* a variant that takes the horizontal offset from the row and the vertical
\* one from the column
offset_of_transposed(a) ==
  <<a.row_idx * a.img_width_height_px[1], a.col_idx * a.img_width_height_px[2]>>

\* offset_height and offset_width of the pass (montage.py:160, 165)
offset_of(a) ==
  <<a.col_idx * a.img_width_height_px[1], a.row_idx * a.img_width_height_px[2]>>

\* a variant that records the status of every image under 'errors'
img_manifest_with_status(a) ==
  [image_name |-> basename(a.img_src_paths[a.image_idx + 1]),
   source_image |-> a.img_src_paths[a.image_idx + 1],
   offset_x |-> offset_of(a)[1],
   offset_y |-> offset_of(a)[2],
   errors |-> a.images_with_statuses[a.image_idx + 1][2]]

\* the manifest entry of the image at image_idx (montage.py:168-185); Python
\* indexes from 0, the sequences of the model from 1
img_manifest(a) ==
  LET entry == [image_name |-> basename(a.img_src_paths[a.image_idx + 1]),
                source_image |-> a.img_src_paths[a.image_idx + 1],
                offset_x |-> offset_of(a)[1],
                offset_y |-> offset_of(a)[2]]
      img == a.images_with_statuses[a.image_idx + 1][1]
      status == a.images_with_statuses[a.image_idx + 1][2]
  IN IF img # NoImage THEN entry
     ELSE [k \in DOMAIN entry \cup {MANIFEST_IMAGE_FAIL_KEY} |->
             IF k = MANIFEST_IMAGE_FAIL_KEY THEN status ELSE entry[k]]

\* montage.paste(img, offset): the pixels of img are drawn at offset
montage_paste(montage, img, offset) ==
  [montage EXCEPT !.pastes = Append(@, [image |-> img, offset |-> offset])]

\* one pass of the inner loop body that does not break (montage.py:162-186);
\* paste() loads the pixels of the image it is given, which raises for a
\* lazily opened image whose file is defective
create_atlas_place(a, allow_truncated) ==
  LET img == a.images_with_statuses[a.image_idx + 1][1]
      failed == img = NoImage
      pasted == IF failed THEN a.default_image ELSE img
      err == load(pasted, allow_truncated)
  IN IF err # "none" THEN [a EXCEPT !.pc = "raised", !.exc = err]
     ELSE [a EXCEPT !.montage = montage_paste(@, pasted, offset_of(a)),
                    !.failed_images_count = IF failed THEN @ + 1 ELSE @,
                    !.manifest = Append(@, img_manifest(a)),
                    !.image_idx = @ + 1,
                    !.col_idx = @ + 1]

\* the inner loop ends (its range is exhausted, or the break at
\* montage.py:162-164) and the outer loop takes its next value
create_atlas_next_row(a) == [a EXCEPT !.row_idx = @ + 1, !.col_idx = 0]

\* the outer loop is exhausted: return ([montage], [manifest])
create_atlas_return(a) ==
  [a EXCEPT !.pc = "done", !.returned = Append(@, <<a.montage, a.manifest>>)]

\* the whole call create_atlas() on a constructed generator
RECURSIVE create_atlas(_, _)
create_atlas(a, allow_truncated) ==
  CASE a.pc \in {"ready", "done"} -> create_atlas(create_atlas_enter(a), allow_truncated)
    [] a.pc = "loop" /\ a.row_idx >= a.atlas_width -> create_atlas_return(a)
    [] a.pc = "loop" /\ a.row_idx < a.atlas_width /\ a.col_idx < a.atlas_height
                    /\ a.image_idx < a.num_input_images
         -> create_atlas(create_atlas_place(a, allow_truncated), allow_truncated)
    [] a.pc = "loop" /\ a.row_idx < a.atlas_width
                    /\ (a.col_idx >= a.atlas_height \/ a.image_idx >= a.num_input_images)
         -> create_atlas(create_atlas_next_row(a), allow_truncated)
    [] OTHER -> a

NewSpriteAtlasGenerator ==
  /\ atlas.pc = "new"
  /\ atlas' = SpriteAtlasGenerator(atlas)

\* create_atlas() is called: on a new generator, or once more on one that
\* has returned an atlas
CreateAtlasEnter ==
  /\ \/ atlas.pc = "ready"
     \/ atlas.pc = "done" /\ Len(atlas.returned) < MaxCreateCalls
  /\ atlas' = create_atlas_enter(atlas)

CreateAtlasPlace ==
  /\ atlas.pc = "loop"
  /\ atlas.row_idx < atlas.atlas_width
  /\ atlas.col_idx < atlas.atlas_height
  /\ atlas.image_idx < atlas.num_input_images
  /\ atlas' = create_atlas_place(atlas, LOAD_TRUNCATED_IMAGES)

CreateAtlasNextRow ==
  /\ atlas.pc = "loop"
  /\ atlas.row_idx < atlas.atlas_width
  /\ \/ atlas.col_idx >= atlas.atlas_height
     \/ atlas.image_idx >= atlas.num_input_images
  /\ atlas' = create_atlas_next_row(atlas)

CreateAtlasReturn ==
  /\ atlas.pc = "loop"
  /\ atlas.row_idx >= atlas.atlas_width
  /\ atlas' = create_atlas_return(atlas)

\* the inputs of the atlas component on its own: image k of a batch is a solid
\* image of its own color (as in montage_test.py), or a failure
SolidImage(k, size) == Image_new(size, <<k, 0, 0, 255>>)
CellSizes == {<<_REQUIRED_MIN_DIMENSION, _REQUIRED_MIN_DIMENSION>>,
              <<_REQUIRED_MIN_DIMENSION, _REQUIRED_MIN_DIMENSION + 2>>}
FailureReasons == {"cannot identify image file", "read timeout"}
ResultKinds == (CellSizes \X {""}) \cup ({None} \X FailureReasons)

\* the result list described by kinds: a size makes a success, None a failure
Results(kinds) ==
  [k \in DOMAIN kinds |->
     IF kinds[k][1] = None THEN <<NoImage, kinds[k][2]>>
     ELSE <<SolidImage(k, kinds[k][1]), "">>]

\* source path lists of any length: two lists with recurring names
SourcePath(variant, k) ==
  CASE (k + variant) % 4 = 0 -> LOCAL_A
    [] (k + variant) % 4 = 1 -> LOCAL_B
    [] (k + variant) % 4 = 2 -> URL_HTTP
    [] OTHER -> <<"d", "">>
SourcePaths(variant, n) == [k \in 1..n |-> SourcePath(variant, k)]

AtlasInit ==
  \E n \in 0..MaxImages :
    \E kinds \in SeqsOfLen(ResultKinds, n), variant \in {0, 1}, m \in {n, n + 1},
       height \in {None, <<2>>}, width \in {None, <<2>>}, default_size \in CellSizes :
      atlas = atlas_call(Results(kinds), SourcePaths(variant, m),
                         [height |-> height, width |-> width],
                         Image_new(default_size, <<0, 0, 0, DEFAULT_OPACITY>>))

(***************************************************************************)
(* atlasmaker_io.py: _check_src_list_dups                                  *)
(***************************************************************************)
\* set(xs)
set(xs) == {xs[k] : k \in DOMAIN xs}

\* the frame of a call _check_src_list_dups(locations, handle_dups)
check_dups_call(locations, handle_dups) ==
  [pc |-> "enter", locations |-> locations, handle_dups |-> handle_dups,
   idx |-> 0, uniques |-> <<>>, dups |-> {}, seen |-> {},
   result |-> <<>>, exc |-> "none"]

check_dups_return(d, result) == [d EXCEPT !.pc = "done", !.result = result]
check_dups_raise(d, exc) == [d EXCEPT !.pc = "done", !.exc = exc]

\* atlasmaker_io.py:64-79: the check of the action name, the early return of
\* a list without duplicates, the empty collections of the loop
check_dups_enter(d) ==
  IF d.handle_dups \notin {"ignore", "fail", "unique"}
    THEN check_dups_raise(d, "ValueError")
  ELSE IF Len(d.locations) = Cardinality(set(d.locations))
    THEN check_dups_return(d, d.locations)
  ELSE [d EXCEPT !.pc = "loop", !.idx = 0, !.uniques = <<>>, !.dups = {}, !.seen = {}]

\* a variant of the loop body that appends every location to uniques
check_dups_loop_keep_all(d) ==
  LET location == d.locations[d.idx + 1]
  IN [d EXCEPT !.uniques = Append(@, location),
               !.seen = @ \cup {location},
               !.idx = @ + 1]

\* atlasmaker_io.py:81-86: one pass of the loop
check_dups_loop(d) ==
  LET location == d.locations[d.idx + 1]
  IN IF location \notin d.seen
       THEN [d EXCEPT !.uniques = Append(@, location),
                      !.seen = @ \cup {location},
                      !.idx = @ + 1]
     ELSE [d EXCEPT !.dups = @ \cup {location}, !.idx = @ + 1]

\* atlasmaker_io.py:88-95: after the loop
check_dups_finish(d) ==
  IF d.handle_dups = "fail" THEN check_dups_raise(d, "ValueError")
  ELSE IF d.handle_dups = "unique" THEN check_dups_return(d, d.uniques)
  ELSE check_dups_return(d, d.locations)

\* the whole call
RECURSIVE _check_src_list_dups(_)
_check_src_list_dups(d) ==
  CASE d.pc = "enter" -> _check_src_list_dups(check_dups_enter(d))
    [] d.pc = "loop" /\ d.idx < Len(d.locations)
         -> _check_src_list_dups(check_dups_loop(d))
    [] d.pc = "loop" /\ d.idx >= Len(d.locations)
         -> _check_src_list_dups(check_dups_finish(d))
    [] OTHER -> d

CheckDupsEnter ==
  /\ srclist.pc = "enter"
  /\ srclist' = check_dups_enter(srclist)

CheckDupsLoop ==
  /\ srclist.pc = "loop"
  /\ srclist.idx < Len(srclist.locations)
  /\ srclist' = check_dups_loop(srclist)

CheckDupsFinish ==
  /\ srclist.pc = "loop"
  /\ srclist.idx >= Len(srclist.locations)
  /\ srclist' = check_dups_finish(srclist)

\* the lines of a source list, and the values of handle_dups
ListedLocations == {LOCAL_A, LOCAL_B, URL_HTTP}
DupsPolicies == {"ignore", "fail", "unique", "skip"}

CheckDupsInit ==
  \E n \in 0..MaxLocations :
    \E locations \in SeqsOfLen(ListedLocations, n), handle_dups \in DupsPolicies :
      srclist = check_dups_call(locations, handle_dups)

(***************************************************************************)
(* atlasmaker.py: main                                                     *)
(*                                                                         *)
(* main.log lists what main() has done to the world so far, in order:      *)
(* "read_src_list", "output_dir", "default_image", "test_image", "batch",  *)
(* "save_atlas", "output_manifest".                                        *)
(***************************************************************************)
\* the value of --num_parallel_jobs in the runs of main()
NUM_PARALLEL_JOBS == 2

\* the frame of main() at entry: the flags, the lines of the file --sourcelist
\* names, whether --output_dir can be created and written to
main_call(flags, lines, output_dir_ok) ==
  [pc |-> "flags", flags |-> flags, lines |-> lines, output_dir_ok |-> output_dir_ok,
   image_source_list |-> <<>>, settings |-> NoSettings, default_img |-> NoImage,
   log |-> <<>>, exc |-> "none", raised_at |-> "none"]

\* main() ends with an exception at the step it is in; main() has done
\* something to the world
main_raise(m, exc) == [m EXCEPT !.pc = "raised", !.exc = exc, !.raised_at = m.pc]
main_did(m, what) == [m EXCEPT !.log = Append(@, what)]

\* atlasmaker.py:125-141: the flag checks
main_check_flags(m) ==
  IF m.flags.max_failures # None /\ m.flags.max_failures[1] > 0
    THEN main_raise(m, "NotImplementedError")
  ELSE IF m.flags.atlas_width # None \/ m.flags.atlas_height # None
    THEN main_raise(m, "NotImplementedError")
  ELSE IF m.flags.sourcelist = None THEN main_raise(m, "ValidationError")
  ELSE [m EXCEPT !.pc = "read_src_list"]

\* atlasmaker.py:143-144: read_src_list_csvfile reads the file and hands its
\* lines to _check_src_list_dups
main_read_src_list(m) ==
  LET d == _check_src_list_dups(
             check_dups_call(m.lines, m.flags.sourcelist_dups_handling))
      read == main_did(m, "read_src_list")
  IN IF d.exc # "none" THEN main_raise(read, d.exc)
     ELSE [read EXCEPT !.pc = "settings", !.image_source_list = d.result]

\* the arguments main() gives ImageConvertSettings (atlasmaker.py:155-160);
\* position is left at its default
main_settings_args(flags) ==
  [img_format |-> flags.image_format, width |-> flags.image_width,
   height |-> flags.image_height, position |-> CENTER,
   bg_color_rgb |-> flags.bg_color_rgb, opacity |-> flags.image_opacity,
   resize_if_larger |-> flags.resize_if_larger,
   preserve_aspect_ratio |-> flags.keep_aspect_ratio]

\* atlasmaker.py:155-160
main_convert_settings(m) ==
  LET S == ImageConvertSettings(main_settings_args(m.flags))
  IN IF _validate_settings(S) # <<>> THEN main_raise(m, "ValueError")
     ELSE [m EXCEPT !.pc = "output_dir", !.settings = S]

\* atlasmaker.py:163: create_output_dir_if_not_exist
main_output_dir(m) ==
  LET probed == main_did(m, "output_dir")
  IN IF m.output_dir_ok THEN [probed EXCEPT !.pc = "default_image"]
     ELSE main_raise(probed, "OSError")

\* parallelize.convert_default_image: the image, or the exception raised
convert_default_image(image_location, S, flag) ==
  LET t == get_and_convert_image(
             task_call(image_location, SideEffect(image_location), FALSE, FALSE,
                       DEFAULT_HTTP_MAX_RETRIES), S, flag)
  IN IF t.out.kind = "raised" THEN [exc |-> t.out.exc, image |-> NoImage]
     ELSE IF t.out.image = NoImage THEN [exc |-> "IOError", image |-> NoImage]
     ELSE [exc |-> "none", image |-> t.out.image]

\* convert.create_default_image
create_default_image(S) == Image_new(<<S.width, S.height>>, S.bg_color)

\* a variant that uses the background image when the default image fails
main_default_image_fall_back(m, flag) ==
  LET got == main_did(m, "default_image")
      r == convert_default_image(m.flags.default_image_path, m.settings, flag)
  IN IF m.flags.default_image_path # None /\ r.exc = "none"
       THEN [got EXCEPT !.pc = "test_image", !.default_img = r.image]
     ELSE [got EXCEPT !.pc = "test_image",
                      !.default_img = create_default_image(m.settings)]

\* atlasmaker.py:165-174
main_default_image(m, flag) ==
  LET got == main_did(m, "default_image")
      r == convert_default_image(m.flags.default_image_path, m.settings, flag)
  IN IF m.flags.default_image_path # None
       THEN IF r.exc # "none" THEN main_raise(got, r.exc)
            ELSE [got EXCEPT !.pc = "test_image", !.default_img = r.image]
     ELSE [got EXCEPT !.pc = "test_image",
                      !.default_img = create_default_image(m.settings)]

\* atlasmaker_io.save_image: img.save loads the pixels; on IOError the image
\* is converted to RGB, which loads them again
save_image(img, flag) == load(img, flag)

\* atlasmaker.py:176-189: the test image
main_test_image(m, flag) ==
  LET saved == main_did(m, "test_image")
  IN IF save_image(m.default_img, flag) # "none"
       THEN main_raise(saved, save_image(m.default_img, flag))
     ELSE [saved EXCEPT !.pc = "batch"]

\* atlasmaker.py:191-198: the call of get_and_convert_images_parallel
main_batch(m) ==
  parallel_call(m.image_source_list, NUM_PARALLEL_JOBS, FALSE,
                m.flags.use_truncated_images, m.flags.http_max_retries)

\* atlasmaker.py:200-208: the arguments of SpriteAtlasGenerator(...)
main_generator(m, outputs) ==
  atlas_call(outputs, m.image_source_list,
             [height |-> m.flags.atlas_height, width |-> m.flags.atlas_width],
             m.default_img)

MainCheckFlags ==
  /\ main.pc = "flags"
  /\ main' = main_check_flags(main)
  /\ UNCHANGED <<LOAD_TRUNCATED_IMAGES, tasks, batch, atlas>>

MainReadSrcList ==
  /\ main.pc = "read_src_list"
  /\ main' = main_read_src_list(main)
  /\ UNCHANGED <<LOAD_TRUNCATED_IMAGES, tasks, batch, atlas>>

MainConvertSettings ==
  /\ main.pc = "settings"
  /\ main' = main_convert_settings(main)
  /\ UNCHANGED <<LOAD_TRUNCATED_IMAGES, tasks, batch, atlas>>

MainOutputDir ==
  /\ main.pc = "output_dir"
  /\ main' = main_output_dir(main)
  /\ UNCHANGED <<LOAD_TRUNCATED_IMAGES, tasks, batch, atlas>>

MainDefaultImage ==
  /\ main.pc = "default_image"
  /\ main' = main_default_image(main, LOAD_TRUNCATED_IMAGES)
  /\ UNCHANGED <<LOAD_TRUNCATED_IMAGES, tasks, batch, atlas>>

MainTestImage ==
  /\ main.pc = "test_image"
  /\ main' = main_test_image(main, LOAD_TRUNCATED_IMAGES)
  /\ UNCHANGED <<LOAD_TRUNCATED_IMAGES, tasks, batch, atlas>>

\* get_and_convert_images_parallel is called: its tasks then run as Dispatch,
\* Work and Gather say
MainBatch ==
  /\ main.pc = "batch"
  /\ main' = [main_did(main, "batch") EXCEPT !.pc = "running"]
  /\ batch' = main_batch(main)
  /\ tasks' = parallel_tasks(main_batch(main))
  /\ UNCHANGED <<LOAD_TRUNCATED_IMAGES, atlas>>

\* get_and_convert_images_parallel has returned or raised; with the results
\* main() constructs the generator's arguments
MainAfterBatch ==
  /\ main.pc = "running"
  /\ batch.pc \in {"returned", "raised"}
  /\ IF batch.pc = "raised"
       THEN main' = main_raise(main, batch.exc) /\ UNCHANGED atlas
       ELSE /\ main' = [main EXCEPT !.pc = "atlas"]
            /\ atlas' = main_generator(main, batch.outputs)
  /\ UNCHANGED <<LOAD_TRUNCATED_IMAGES, tasks, batch>>

\* atlasmaker.py:205-214: the generator or create_atlas has raised, or the
\* atlas and the manifest are at hand and are written
MainAfterAtlas ==
  /\ main.pc = "atlas"
  /\ atlas.pc \in {"done", "raised"}
  /\ main' = IF atlas.pc = "raised" THEN main_raise(main, atlas.exc)
             ELSE [main_did(main_did(main, "save_atlas"), "output_manifest")
                     EXCEPT !.pc = "done"]
  /\ UNCHANGED <<LOAD_TRUNCATED_IMAGES, tasks, batch, atlas>>

\* the flags of the runs, the files behind --sourcelist, --output_dir
PipelineLocations == {LOCAL_A, LOCAL_MISSING, LOCAL_TRUNCATED_FIT, LOCAL_CORRUPT}
DefaultImagePaths ==
  {None, LOCAL_B, LOCAL_MISSING, LOCAL_TRUNCATED, LOCAL_TRUNCATED_FIT, LOCAL_CORRUPT}
MainFlags ==
  [max_failures : {None, <<1>>},
   sourcelist : {None, <<"list.csv">>},
   sourcelist_dups_handling : {"ignore", "fail"},
   default_image_path : DefaultImagePaths,
   http_max_retries : {DEFAULT_HTTP_MAX_RETRIES},
   atlas_width : {None, <<2>>},
   atlas_height : {None},
   image_format : {"png"},
   keep_aspect_ratio : {TRUE},
   image_width : {_REQUIRED_MIN_DIMENSION - 1, _REQUIRED_MIN_DIMENSION},
   image_height : {_REQUIRED_MIN_DIMENSION},
   image_opacity : {DEFAULT_OPACITY, 256},
   resize_if_larger : {FALSE},
   use_truncated_images : BOOLEAN,
   bg_color_rgb : {<<255, 255, 255>>}]

MainInit ==
  /\ \E flags \in MainFlags, n \in 0..MaxBatch, output_dir_ok \in BOOLEAN :
       \E lines \in SeqsOfLen(PipelineLocations, n) :
         main = main_call(flags, lines, output_dir_ok)
  /\ tasks = <<>>
  /\ batch = [pc |-> "idle"]
  /\ atlas = [pc |-> "idle"]
  /\ LOAD_TRUNCATED_IMAGES = FALSE

(***************************************************************************)
(* One invocation of get_and_convert_image followed statement by           *)
(* statement: its call of get_image runs as the steps of get_image (each   *)
(* HTTP attempt and each sleep is a step of its own).                      *)
(***************************************************************************)
\* parallelize.py:52-54: the task calls get_image
TaskFetchCall(i) ==
  /\ batch.pc = "task"
  /\ tasks[i].pc = "fetch"
  /\ fetch.pc = "idle"
  /\ fetch' = get_image_call(tasks[i].image_location, Resource(tasks[i].image_location),
                             tasks[i].side_effect, tasks[i].http_max_retries,
                             DEFAULT_HTTP_RETRY_INTERVAL)
  /\ UNCHANGED <<tasks, LOAD_TRUNCATED_IMAGES>>

\* the step of get_image that is enabled, while the task waits for it
TaskFetchStep ==
  /\ batch.pc = "task"
  /\ \/ GetImageEnter
     \/ GetImageLoop
     \/ GetImageSleep
     \/ GetImageFinal
     \/ GetImageLocal
  /\ UNCHANGED <<tasks, LOAD_TRUNCATED_IMAGES>>

\* parallelize.py:52-58: get_image has returned or raised to the task
TaskFetchReturn(i) ==
  /\ batch.pc = "task"
  /\ tasks[i].pc = "fetch"
  /\ fetch.pc = "done"
  /\ tasks' = [tasks EXCEPT ![i] = task_after_fetch(@, fetch)]
  /\ UNCHANGED <<fetch, LOAD_TRUNCATED_IMAGES>>

\* the first and the last statements of the task
TaskFirst(i) ==
  /\ batch.pc = "task"
  /\ tasks[i].pc = "enter"
  /\ tasks' = [tasks EXCEPT ![i] = task_enter(@)]
  /\ LOAD_TRUNCATED_IMAGES' = task_enter_flag(tasks[i], LOAD_TRUNCATED_IMAGES)
  /\ UNCHANGED fetch

TaskLast(i) ==
  /\ batch.pc = "task"
  /\ tasks[i].pc = "convert"
  /\ tasks' = [tasks EXCEPT ![i] = task_convert(@, TaskSettings, LOAD_TRUNCATED_IMAGES)]
  /\ UNCHANGED <<fetch, LOAD_TRUNCATED_IMAGES>>

\* the invocations: local files with nothing to retry, URLs with every pattern
\* of outcomes of the HTTP attempts
TaskInvocations ==
  {task_call(l, SideEffect(l), a, d, r) :
     l \in {LOCAL_A, LOCAL_TRUNCATED, LOCAL_CORRUPT, LOCAL_MISSING},
     a \in BOOLEAN, d \in BOOLEAN, r \in 0..MaxRetries}
  \cup
  {task_call(l, s, FALSE, FALSE, r) :
     l \in {URL_HTTP, URL_HTTPS}, s \in SeqsOfLen(AttemptOutcomes, MaxRetries + 1),
     r \in 0..MaxRetries}

TaskInit ==
  /\ \E t \in TaskInvocations : tasks = <<t>>
  /\ batch = [pc |-> "task"]
  /\ fetch = [pc |-> "idle"]
  /\ LOAD_TRUNCATED_IMAGES = FALSE

(***************************************************************************)
(* facets_overview/python/base_feature_statistics_generator.py             *)
(*                                                                         *)
(* A tf.Feature is a record [kind, value]: kind is the field of the oneof  *)
(* that is set ("float_list", "bytes_list", "int64_list", or "none" when   *)
(* no field is set) and value the list in it.  A tf.FeatureList is a       *)
(* sequence of such features.  A map of features is a function from the    *)
(* names in it; the maps are gone through in the order of FeatureNames.    *)
(* An example is a record [features, feature_lists]; for a tf.Example the  *)
(* code passes [] for the feature lists, the map with no names.            *)
(* entries maps a name to ['vals', 'counts', 'feat_lens', 'missing',       *)
(* 'type'], type "unset" standing for an entry without the key 'type'.     *)
(***************************************************************************)
FeatureNames == <<"a", "b">>
EmptyMap == <<>>

\* feature.HasField(...) of a tf.Feature: the value type and the value list
feature_type(kind) ==
  CASE kind = "float_list" -> "FLOAT"
    [] kind = "bytes_list" -> "STRING"
    [] kind = "int64_list" -> "INT"
    [] OTHER -> "None"

\* the values of the features of a FeatureList that are in the list `kind`
\* (feat.float_list.value is empty for a feature of another kind)
RECURSIVE values_of_kind(_, _)
values_of_kind(feats, kind) ==
  IF feats = <<>> THEN <<>>
  ELSE (IF feats[1].kind = kind THEN feats[1].value ELSE <<>>)
         \o values_of_kind(Tail(feats), kind)

\* lines 111-143: value_type, value_list and sequence_length for one name
parsed_feature(feature, is_feature) ==
  IF is_feature
    THEN [value_type |-> feature_type(feature.kind),
          value_list |-> IF feature.kind = "none" THEN <<>> ELSE feature.value,
          sequence_length |-> -1]
  ELSE IF Len(feature) # 0 /\ feature[1].kind # "none"
    THEN [value_type |-> feature_type(feature[1].kind),
          value_list |-> values_of_kind(feature, feature[1].kind),
          sequence_length |-> Len(feature)]
  ELSE [value_type |-> "None", value_list |-> <<>>, sequence_length |-> Len(feature)]

\* lines 102-109: the entry of a name not seen in previous examples
new_entry(index) ==
  [vals |-> <<>>, counts |-> <<>>, feat_lens |-> <<>>, missing |-> index,
   type |-> "unset"]

with_entry(entries, feature_name, index) ==
  IF feature_name \in DOMAIN entries THEN entries
  ELSE [f \in DOMAIN entries \cup {feature_name} |->
          IF f = feature_name THEN new_entry(index) ELSE entries[f]]

\* lines 99-153: the body of the inner loop for one name of one of the maps;
\* p is [entries, features_seen, exc]
parse_feature(p, feature_name, feature, is_feature, index) ==
  LET entries == with_entry(p.entries, feature_name, index)
      v == parsed_feature(feature, is_feature)
      feature_entry == entries[feature_name]
      typed == IF v.value_type # "None" /\ feature_entry.type = "unset"
                 THEN [feature_entry EXCEPT !.type = v.value_type]
               ELSE feature_entry
      filled == [typed EXCEPT
                   !.counts = Append(@, Len(v.value_list)),
                   !.vals = @ \o v.value_list,
                   !.feat_lens = IF v.sequence_length # -1
                                   THEN Append(@, v.sequence_length) ELSE @]
  IN IF p.exc # "none" THEN p
     ELSE IF v.value_type # "None" /\ feature_entry.type \notin {"unset", v.value_type}
       THEN [p EXCEPT !.entries = entries, !.exc = "TypeError"]
     ELSE [entries |-> [entries EXCEPT ![feature_name] = filled],
           features_seen |-> IF v.value_list # <<>>
                               THEN p.features_seen \cup {feature_name}
                             ELSE p.features_seen,
           exc |-> "none"]

\* the inner loop over one map, names k..Len(FeatureNames)
RECURSIVE parse_map(_, _, _, _, _)
parse_map(p, map, is_feature, index, k) ==
  IF k > Len(FeatureNames) THEN p
  ELSE IF FeatureNames[k] \in DOMAIN map
    THEN parse_map(parse_feature(p, FeatureNames[k], map[FeatureNames[k]],
                                 is_feature, index),
                   map, is_feature, index, k + 1)
  ELSE parse_map(p, map, is_feature, index, k + 1)

\* lines 159-166: the names not found in this example miss one example more
update_missing(entries, features_seen) ==
  [f \in DOMAIN entries |->
     IF f \in features_seen THEN entries[f]
     ELSE [entries[f] EXCEPT !.missing = @ + 1]]

\* _ParseExample(example_features, example_feature_lists, entries, index):
\* the entries as the call leaves them and the exception it raises, if any
_ParseExample(example_features, example_feature_lists, entries, index) ==
  LET p0 == [entries |-> entries, features_seen |-> {}, exc |-> "none"]
      p1 == parse_map(p0, example_features, TRUE, index, 1)
      p2 == parse_map(p1, example_feature_lists, FALSE, index, 1)
  IN IF p2.exc # "none" THEN [entries |-> p2.entries, exc |-> p2.exc]
     ELSE [entries |-> update_missing(p2.entries, p2.features_seen), exc |-> "none"]

(***************************************************************************)
(* _ParseExample applied to one example after the other, index = position, *)
(* starting from empty entries (as _GetEntries does).                      *)
(***************************************************************************)
Absent == [kind |-> "absent", value |-> <<>>]
Feature(kind, value) == [kind |-> kind, value |-> value]

\* the map with the names that `choice` does not leave out
MapOf(choice, absent) ==
  [f \in {g \in DOMAIN choice : choice[g] # absent} |-> choice[f]]

\* the maps of tf.Features of the examples
FeaturesOfA ==
  {Absent, Feature("float_list", <<>>), Feature("float_list", <<1, 2>>),
   Feature("int64_list", <<3>>), Feature("none", <<>>)}
FeaturesOfB == {Absent, Feature("float_list", <<1>>)}
ContextFeatures ==
  {MapOf([f \in {"a", "b"} |-> IF f = "a" THEN x ELSE y], Absent) :
     x \in FeaturesOfA, y \in FeaturesOfB}

\* the maps of tf.FeatureLists of the sequence examples
FeatureLists ==
  {MapOf(c, <<Absent>>) :
     c \in [{"a"} ->
              {<<Absent>>, <<>>,
               <<Feature("float_list", <<1>>), Feature("float_list", <<2>>)>>,
               <<Feature("float_list", <<1>>), Feature("int64_list", <<3>>)>>}]}

\* tf.Examples (no feature lists) and tf.SequenceExamples
Examples ==
  {[features |-> m, feature_lists |-> EmptyMap] : m \in ContextFeatures}
  \cup {[features |-> m, feature_lists |-> l] : m \in ContextFeatures, l \in FeatureLists}

ParseInit ==
  overview = [pc |-> "parse", entries |-> EmptyMap, index |-> 0,
              examples |-> <<>>, exc |-> "none"]

\* one more example is parsed, with its position as index
ParseNextExample ==
  /\ overview.pc = "parse"
  /\ overview.exc = "none"
  /\ overview.index < MaxExamples
  /\ \E ex \in Examples :
       LET r == _ParseExample(ex.features, ex.feature_lists, overview.entries,
                              overview.index)
       IN overview' = [overview EXCEPT !.entries = r.entries,
                                       !.exc = r.exc,
                                       !.index = IF r.exc = "none" THEN @ + 1 ELSE @,
                                       !.examples = Append(@, ex)]

\* ------------------------------------------------------------------
\* _GetEntries (base_feature_statistics_generator.py:168-206)

MaxFiles == 2
MaxRecords == 2
MaxEntries == 3

\* the records that the files hold: serialized tf.Examples, and
\* tf.SequenceExamples when is_sequence
RecordsOfExamples ==
  {[features |-> MapOf([f \in {"a"} |-> x], Absent), feature_lists |-> EmptyMap] :
     x \in {Feature("float_list", <<1, 2>>), Feature("int64_list", <<3>>)}}
RecordsOfSequenceExamples ==
  {[features |-> EmptyMap,
    feature_lists |-> MapOf([f \in {"a"} |-> <<Feature("float_list", <<1>>)>>], <<Absent>>)]}
Records(is_sequence) ==
  IF is_sequence THEN RecordsOfSequenceExamples ELSE RecordsOfExamples

\* the files: each one a sequence of records, which iterator_from_file yields
\* in order
FilesOf(is_sequence) ==
  UNION {[1..n -> Records(is_sequence)] : n \in 0..MaxRecords}
PathsOf(is_sequence) ==
  UNION {[1..n -> FilesOf(is_sequence)] : n \in 0..MaxFiles}

\* lines 189-190 and the call: entries = {}, index = 0, before the first file
_GetEntries_call(paths, max_entries, is_sequence) ==
  [pc |-> "files", paths |-> paths, max_entries |-> max_entries,
   is_sequence |-> is_sequence, entries |-> EmptyMap, index |-> 0,
   file |-> 0, record |-> 0, parsed |-> <<>>, exc |-> "none"]

\* lines 194-203: the record is parsed as the kind of example is_sequence names
_GetEntries_parse(o, record) ==
  IF o.is_sequence
    THEN _ParseExample(record.features, record.feature_lists, o.entries, o.index)
  ELSE _ParseExample(record.features, EmptyMap, o.entries, o.index)

\* lines 191-192 and 206: the next path is opened, or the loop over the paths
\* is over and (entries, index) is returned
_GetEntries_next_file(o) ==
  IF o.file < Len(o.paths)
    THEN [o EXCEPT !.pc = "records", !.file = @ + 1, !.record = 0]
  ELSE [o EXCEPT !.pc = "returned"]

\* lines 193-205: the reader yields the next record, which is parsed and
\* counted, and the call returns when index == max_entries; or the reader is
\* exhausted
_GetEntries_next_record(o) ==
  IF o.record < Len(o.paths[o.file])
    THEN LET record == o.paths[o.file][o.record + 1]
             r == _GetEntries_parse(o, record)
         IN IF r.exc # "none"
              THEN [o EXCEPT !.pc = "raised", !.exc = r.exc, !.entries = r.entries,
                             !.record = @ + 1,
                             !.parsed = Append(@, <<o.file, o.record + 1>>)]
            ELSE [o EXCEPT !.entries = r.entries, !.index = @ + 1,
                           !.record = @ + 1,
                           !.parsed = Append(@, <<o.file, o.record + 1>>),
                           !.pc = IF o.index + 1 = o.max_entries
                                    THEN "returned" ELSE "records"]
  ELSE [o EXCEPT !.pc = "files"]

GetEntriesInit ==
  \E is_sequence \in BOOLEAN :
    \E paths \in PathsOf(is_sequence), max_entries \in 0..MaxEntries :
      overview = _GetEntries_call(paths, max_entries, is_sequence)

GetEntriesNextFile ==
  /\ overview.pc = "files"
  /\ overview' = _GetEntries_next_file(overview)

GetEntriesNextRecord ==
  /\ overview.pc = "records"
  /\ overview' = _GetEntries_next_record(overview)

\* the components that a specification does not use
ConvertIdle ==
  /\ cpc = "idle"
  /\ settings_args = <<>>
  /\ settings = <<>>
  /\ error_messages = <<>>
  /\ orig_img = <<>>
  /\ orig_before = <<>>
  /\ converted = <<>>

FetchIdle == fetch = [pc |-> "idle"]
TasksIdle == tasks = <<>> /\ batch = [pc |-> "idle"]
AtlasIdle == atlas = [pc |-> "idle"]
CheckDupsIdle == srclist = [pc |-> "idle"]
MainIdle == main = [pc |-> "idle"]
OverviewIdle == overview = [pc |-> "idle"]

(***************************************************************************)
(* Specifications                                                          *)
(***************************************************************************)
InitConvert ==
  /\ ConvertInit
  /\ FetchIdle
  /\ LOAD_TRUNCATED_IMAGES = FALSE
  /\ TasksIdle
  /\ AtlasIdle
  /\ CheckDupsIdle
  /\ MainIdle
  /\ OverviewIdle

NextConvert ==
  \/ NewImageConvertSettings /\ UNCHANGED <<fetch, LOAD_TRUNCATED_IMAGES, tasks, batch, atlas, srclist, main, overview>>
  \/ NewImageConverter /\ UNCHANGED <<fetch, LOAD_TRUNCATED_IMAGES, tasks, batch, atlas, srclist, main, overview>>
  \/ Convert /\ UNCHANGED <<fetch, LOAD_TRUNCATED_IMAGES, tasks, batch, atlas, srclist, main, overview>>

SpecConvert == InitConvert /\ [][NextConvert]_vars

InitFetch ==
  /\ ConvertIdle
  /\ FetchInit
  /\ LOAD_TRUNCATED_IMAGES = FALSE
  /\ TasksIdle
  /\ AtlasIdle
  /\ CheckDupsIdle
  /\ MainIdle
  /\ OverviewIdle

NextFetch ==
  \/ GetImageEnter /\ UNCHANGED <<convert_vars, LOAD_TRUNCATED_IMAGES, tasks, batch, atlas, srclist, main, overview>>
  \/ GetImageLoop /\ UNCHANGED <<convert_vars, LOAD_TRUNCATED_IMAGES, tasks, batch, atlas, srclist, main, overview>>
  \/ GetImageSleep /\ UNCHANGED <<convert_vars, LOAD_TRUNCATED_IMAGES, tasks, batch, atlas, srclist, main, overview>>
  \/ GetImageFinal /\ UNCHANGED <<convert_vars, LOAD_TRUNCATED_IMAGES, tasks, batch, atlas, srclist, main, overview>>
  \/ GetImageLocal /\ UNCHANGED <<convert_vars, LOAD_TRUNCATED_IMAGES, tasks, batch, atlas, srclist, main, overview>>

SpecFetch == InitFetch /\ [][NextFetch]_vars

InitCalls ==
  /\ ConvertIdle
  /\ FetchIdle
  /\ CallsInit
  /\ AtlasIdle
  /\ CheckDupsIdle
  /\ MainIdle
  /\ OverviewIdle

NextCalls ==
  \/ \E i \in DOMAIN tasks : TaskEnter(i) /\ UNCHANGED <<convert_vars, fetch, batch, atlas, srclist, main, overview>>
  \/ \E i \in DOMAIN tasks : TaskFetch(i) /\ UNCHANGED <<convert_vars, fetch, batch, atlas, srclist, main, overview>>
  \/ \E i \in DOMAIN tasks : TaskConvert(i) /\ UNCHANGED <<convert_vars, fetch, batch, atlas, srclist, main, overview>>

SpecCalls == InitCalls /\ [][NextCalls]_vars

InitParallel ==
  /\ ConvertIdle
  /\ FetchIdle
  /\ ParallelInit
  /\ AtlasIdle
  /\ CheckDupsIdle
  /\ MainIdle
  /\ OverviewIdle

NextParallel ==
  \/ Dispatch /\ UNCHANGED <<convert_vars, fetch, atlas, srclist, main, overview>>
  \/ Work /\ UNCHANGED <<convert_vars, fetch, atlas, srclist, main, overview>>
  \/ Gather /\ UNCHANGED <<convert_vars, fetch, atlas, srclist, main, overview>>
  \/ ParallelReturn /\ UNCHANGED <<convert_vars, fetch, atlas, srclist, main, overview>>

SpecParallel == InitParallel /\ [][NextParallel]_vars

InitAtlas ==
  /\ ConvertIdle
  /\ FetchIdle
  /\ LOAD_TRUNCATED_IMAGES = FALSE
  /\ TasksIdle
  /\ AtlasInit
  /\ CheckDupsIdle
  /\ MainIdle
  /\ OverviewIdle

NextAtlas ==
  \/ NewSpriteAtlasGenerator /\ UNCHANGED <<convert_vars, fetch, LOAD_TRUNCATED_IMAGES, tasks, batch, srclist, main, overview>>
  \/ CreateAtlasEnter /\ UNCHANGED <<convert_vars, fetch, LOAD_TRUNCATED_IMAGES, tasks, batch, srclist, main, overview>>
  \/ CreateAtlasPlace /\ UNCHANGED <<convert_vars, fetch, LOAD_TRUNCATED_IMAGES, tasks, batch, srclist, main, overview>>
  \/ CreateAtlasNextRow /\ UNCHANGED <<convert_vars, fetch, LOAD_TRUNCATED_IMAGES, tasks, batch, srclist, main, overview>>
  \/ CreateAtlasReturn /\ UNCHANGED <<convert_vars, fetch, LOAD_TRUNCATED_IMAGES, tasks, batch, srclist, main, overview>>

SpecAtlas == InitAtlas /\ [][NextAtlas]_vars

InitCheckDups ==
  /\ ConvertIdle
  /\ FetchIdle
  /\ LOAD_TRUNCATED_IMAGES = FALSE
  /\ TasksIdle
  /\ AtlasIdle
  /\ CheckDupsInit
  /\ MainIdle
  /\ OverviewIdle

NextCheckDups ==
  \/ CheckDupsEnter /\ UNCHANGED <<convert_vars, fetch, LOAD_TRUNCATED_IMAGES, tasks, batch, atlas, main, overview>>
  \/ CheckDupsLoop /\ UNCHANGED <<convert_vars, fetch, LOAD_TRUNCATED_IMAGES, tasks, batch, atlas, main, overview>>
  \/ CheckDupsFinish /\ UNCHANGED <<convert_vars, fetch, LOAD_TRUNCATED_IMAGES, tasks, batch, atlas, main, overview>>

SpecCheckDups == InitCheckDups /\ [][NextCheckDups]_vars

InitMain ==
  /\ ConvertIdle
  /\ FetchIdle
  /\ CheckDupsIdle
  /\ MainInit
  /\ OverviewIdle

NextMain ==
  \/ MainCheckFlags /\ UNCHANGED <<convert_vars, fetch, srclist, overview>>
  \/ MainReadSrcList /\ UNCHANGED <<convert_vars, fetch, srclist, overview>>
  \/ MainConvertSettings /\ UNCHANGED <<convert_vars, fetch, srclist, overview>>
  \/ MainOutputDir /\ UNCHANGED <<convert_vars, fetch, srclist, overview>>
  \/ MainDefaultImage /\ UNCHANGED <<convert_vars, fetch, srclist, overview>>
  \/ MainTestImage /\ UNCHANGED <<convert_vars, fetch, srclist, overview>>
  \/ MainBatch /\ UNCHANGED <<convert_vars, fetch, srclist, overview>>
  \/ Dispatch /\ UNCHANGED <<convert_vars, fetch, atlas, srclist, main, overview>>
  \/ Work /\ UNCHANGED <<convert_vars, fetch, atlas, srclist, main, overview>>
  \/ Gather /\ UNCHANGED <<convert_vars, fetch, atlas, srclist, main, overview>>
  \/ ParallelReturn /\ UNCHANGED <<convert_vars, fetch, atlas, srclist, main, overview>>
  \/ MainAfterBatch /\ UNCHANGED <<convert_vars, fetch, srclist, overview>>
  \/ NewSpriteAtlasGenerator /\ UNCHANGED <<convert_vars, fetch, LOAD_TRUNCATED_IMAGES, tasks, batch, srclist, main, overview>>
  \/ CreateAtlasEnter /\ atlas.pc = "ready" /\ UNCHANGED <<convert_vars, fetch, LOAD_TRUNCATED_IMAGES, tasks, batch, srclist, main, overview>>
  \/ CreateAtlasPlace /\ UNCHANGED <<convert_vars, fetch, LOAD_TRUNCATED_IMAGES, tasks, batch, srclist, main, overview>>
  \/ CreateAtlasNextRow /\ UNCHANGED <<convert_vars, fetch, LOAD_TRUNCATED_IMAGES, tasks, batch, srclist, main, overview>>
  \/ CreateAtlasReturn /\ UNCHANGED <<convert_vars, fetch, LOAD_TRUNCATED_IMAGES, tasks, batch, srclist, main, overview>>
  \/ MainAfterAtlas /\ UNCHANGED <<convert_vars, fetch, srclist, overview>>

SpecMain == InitMain /\ [][NextMain]_vars

InitTask ==
  /\ ConvertIdle
  /\ TaskInit
  /\ AtlasIdle
  /\ CheckDupsIdle
  /\ MainIdle
  /\ OverviewIdle

NextTask ==
  \/ TaskFirst(1) /\ UNCHANGED <<convert_vars, batch, atlas, srclist, main, overview>>
  \/ TaskFetchCall(1) /\ UNCHANGED <<convert_vars, batch, atlas, srclist, main, overview>>
  \/ TaskFetchStep /\ UNCHANGED <<convert_vars, batch, atlas, srclist, main, overview>>
  \/ TaskFetchReturn(1) /\ UNCHANGED <<convert_vars, batch, atlas, srclist, main, overview>>
  \/ TaskLast(1) /\ UNCHANGED <<convert_vars, batch, atlas, srclist, main, overview>>

\* every statement of the task, every HTTP attempt and every sleep ends
SpecTask == InitTask /\ [][NextTask]_vars /\ WF_vars(NextTask)

InitParse ==
  /\ ConvertIdle
  /\ FetchIdle
  /\ TasksIdle
  /\ LOAD_TRUNCATED_IMAGES = FALSE
  /\ AtlasIdle
  /\ CheckDupsIdle
  /\ MainIdle
  /\ ParseInit

NextParse ==
  ParseNextExample /\ UNCHANGED <<convert_vars, fetch, LOAD_TRUNCATED_IMAGES, tasks, batch, atlas, srclist, main>>

SpecParse == InitParse /\ [][NextParse]_vars

\* _GetEntries over the files of a dataset
InitGetEntries ==
  /\ ConvertIdle
  /\ FetchIdle
  /\ TasksIdle
  /\ LOAD_TRUNCATED_IMAGES = FALSE
  /\ AtlasIdle
  /\ CheckDupsIdle
  /\ MainIdle
  /\ GetEntriesInit

NextGetEntries ==
  \/ GetEntriesNextFile /\ UNCHANGED <<convert_vars, fetch, LOAD_TRUNCATED_IMAGES, tasks, batch, atlas, srclist, main>>
  \/ GetEntriesNextRecord /\ UNCHANGED <<convert_vars, fetch, LOAD_TRUNCATED_IMAGES, tasks, batch, atlas, srclist, main>>

SpecGetEntries == InitGetEntries /\ [][NextGetEntries]_vars

(***************************************************************************)
(* Properties                                                              *)
(***************************************************************************)

\* C1: whenever convert() returns, for any valid settings and any source size
\* and format, the returned image has exactly the size (settings.width,
\* settings.height), whichever branch was taken.
C1_ConvertedHasTargetSize ==
  (cpc = "converted" /\ converted.raised = "none")
    => converted.image.size = <<settings.width, settings.height>>

\* convert() took the aspect-keeping upscale branch, the scaled image was wider
\* than the target, and the returned canvas still has the target size
C1_Witness ==
  /\ cpc = "converted"
  /\ converted.branch = "upscale_pad"
  /\ converted.image.pixels = "canvas"
  /\ converted.image.box[3] > settings.width
  /\ converted.image.size = <<settings.width, settings.height>>

\* get_image was called on a URL with arguments it accepts, and has returned
\* or raised
FetchedUrl ==
  /\ fetch.pc = "done"
  /\ urlparse_scheme(fetch.location) \in {"http", "https"}
  /\ fetch.http_max_retries >= 1
  /\ fetch.http_retry_interval >= 0

\* the timeout-class errors of the requests library among AttemptOutcomes
TimeoutErrors == {"ConnectTimeout", "ReadTimeout"}

\* the first k HTTP attempts raise a timeout-class error
TimesOutFirst(k) == \A j \in 1..k : fetch.side_effect[j] \in TimeoutErrors

\* C2: for a URL and any k < http_max_retries, when the first k attempts time
\* out and attempt k+1 succeeds, get_image returns the decoded image and the
\* request function has been invoked exactly k+1 times.
C2_RetryUntilSuccess ==
  \A k \in 0..MaxRetries :
    (/\ FetchedUrl
     /\ k < fetch.http_max_retries
     /\ TimesOutFirst(k)
     /\ fetch.side_effect[k + 1] = "ok")
      => /\ fetch.raised = "none"
         /\ fetch.image = Resource(fetch.location)
         /\ fetch.call_count = k + 1

\* two timeouts (one of each class), then success on the third and last attempt
C2_Witness ==
  /\ FetchedUrl
  /\ fetch.http_max_retries = 3
  /\ fetch.side_effect[1] = "ConnectTimeout"
  /\ fetch.side_effect[2] = "ReadTimeout"
  /\ fetch.side_effect[3] = "ok"
  /\ fetch.raised = "none"
  /\ fetch.image = Resource(fetch.location)
  /\ fetch.call_count = 3

\* C3: get_image retries only after a timeout-class error: when attempt j is
\* the first one that does not time out and it fails with another error, that
\* error is what get_image raises and no request follows it (j requests in
\* all; one request when j = 1).
C3_NoRetryOnOtherError ==
  \A j \in 1..MaxRetries :
    (/\ FetchedUrl
     /\ j <= fetch.http_max_retries
     /\ TimesOutFirst(j - 1)
     /\ fetch.side_effect[j] # "ok"
     /\ fetch.side_effect[j] \notin TimeoutErrors)
      => /\ fetch.raised = fetch.side_effect[j]
         /\ fetch.call_count = j

\* an invalid URL on the first of three allowed attempts: one request, raised
C3_Witness ==
  /\ FetchedUrl
  /\ fetch.http_max_retries = 3
  /\ fetch.side_effect[1] = "InvalidURL"
  /\ fetch.side_effect[2] = "ReadTimeout"
  /\ fetch.side_effect[3] = "ok"
  /\ fetch.raised = "InvalidURL"
  /\ fetch.call_count = 1

\* C4: for a URL, get_image never makes more than http_max_retries HTTP
\* attempts; when every attempt times out it makes exactly http_max_retries
\* attempts; and whenever the last allowed attempt is made, its outcome (the
\* image, or its exception of whatever class) is what the caller receives.
C4_AtMostMaxRetries ==
  /\ fetch.pc # "idle" => fetch.call_count <= Max(fetch.http_max_retries, 0)
  /\ (FetchedUrl /\ TimesOutFirst(fetch.http_max_retries))
       => /\ fetch.call_count = fetch.http_max_retries
          /\ fetch.raised = fetch.side_effect[fetch.http_max_retries]
  /\ (FetchedUrl /\ fetch.call_count = fetch.http_max_retries)
       => IF fetch.side_effect[fetch.http_max_retries] = "ok"
            THEN fetch.raised = "none" /\ fetch.image = Resource(fetch.location)
            ELSE fetch.raised = fetch.side_effect[fetch.http_max_retries]

\* every one of three attempts timed out: three requests, the last timeout raised
C4_Witness ==
  /\ FetchedUrl
  /\ fetch.http_max_retries = 3
  /\ TimesOutFirst(3)
  /\ fetch.call_count = 3
  /\ fetch.slept = 2
  /\ fetch.raised = fetch.side_effect[3]

\* C5: every invocation of get_and_convert_image returns exactly one of
\* (image, '') or (None, reason) and never raises to its caller, whatever the
\* fetch raises and whatever the decode/conversion step raises.  (Stated for
\* the invocations with disk_cache off; disk_cache is documented as not
\* supported and raises NotImplementedError by design.)
C5_TaskAlwaysReturnsTuple ==
  \A i \in DOMAIN tasks :
    (tasks[i].pc = "done" /\ ~tasks[i].disk_cache)
      => /\ tasks[i].out.kind = "returned"
         /\ \/ tasks[i].out.image # NoImage /\ tasks[i].out.status = ""
            \/ tasks[i].out.image = NoImage /\ tasks[i].out.status # ""

\* the conversion of img under the task settings reads its pixels (every
\* branch of convert() but the no-op one does)
Decoded(img) == convert(img, TaskSettings, TRUE).branch # "noop"

\* C6: truncated source images are tolerated only by the invocations that
\* set allow_truncated_images: a call made without it on a truncated image
\* (whose pixels the conversion reads) returns a Failure, whatever calls were
\* made earlier or run concurrently in the process.
C6_TruncatedFailsWithoutAllow ==
  \A i \in DOMAIN tasks :
    (/\ tasks[i].pc = "done"
     /\ ~tasks[i].disk_cache
     /\ ~tasks[i].allow_truncated_images
     /\ tasks[i].src_image.defect = "truncated"
     /\ Decoded(tasks[i].src_image))
      => /\ tasks[i].out.kind = "returned"
         /\ tasks[i].out.image = NoImage

\* the tuple get_and_convert_image returns for location i of the batch when it
\* is the only call of a fresh process
AloneOutput(i) ==
  LET t == get_and_convert_image(
             task_call(batch.image_src_locations[i],
                       SideEffect(batch.image_src_locations[i]),
                       batch.allow_truncated_images, batch.disk_cache,
                       batch.http_max_retries),
             TaskSettings, FALSE)
  IN <<t.out.image, t.out.status>>

\* C7: when get_and_convert_images_parallel returns, the list has exactly one
\* result per input location and result i is the result of the task that was
\* run for location i, whatever the completion order and the workers.
C7_OutputsInInputOrder ==
  batch.pc = "returned"
    => /\ Len(batch.outputs) = Len(batch.image_src_locations)
       /\ \A i \in 1..Len(batch.image_src_locations) :
            /\ tasks[i].image_location = batch.image_src_locations[i]
            /\ tasks[i].pc = "done"
            /\ batch.outputs[i] = <<tasks[i].out.image, tasks[i].out.status>>

\* a batch of three returned although its calls ended in the order 2, 1, 3
\* (calls 1 and 2 ran at the same time, each on one of the two workers), with
\* a success first and a failure second in the list
C7_Witness ==
  /\ batch.pc = "returned"
  /\ batch.n_jobs = 2
  /\ batch.completed = <<2, 1, 3>>
  /\ batch.outputs[1][1] # NoImage
  /\ batch.outputs[2][1] = NoImage
  /\ batch.outputs[1] = AloneOutput(1)
  /\ batch.outputs[2] = AloneOutput(2)

\* C8: no task's failure affects another task: whatever locations fail to be
\* fetched or converted, the batch is not aborted; it returns all N results,
\* a Failure at exactly the failing indexes and at the others the Success the
\* location produces alone.  (Stated for disk_cache off.)
C8_FailuresAreIsolated ==
  (batch.pc \in {"returned", "raised"} /\ ~batch.disk_cache)
    => /\ batch.pc = "returned"
       /\ Len(batch.outputs) = Len(batch.image_src_locations)
       /\ \A i \in 1..Len(batch.image_src_locations) :
            batch.outputs[i] = AloneOutput(i)

\* create_atlas has returned its single atlas and manifest
AtlasDone == atlas.pc = "done"
NumInputs == Len(atlas.images_with_statuses)
Failed(i) == atlas.images_with_statuses[i][1] = NoImage

\* the size of the first non-failed image
CellSize ==
  LET first == CHOOSE k \in 1..NumInputs :
                 ~Failed(k) /\ \A j \in 1..(k - 1) : Failed(j)
  IN atlas.images_with_statuses[first][1].size

\* the pixel offset of cell i (cells count from 1 here, from 0 in the code)
\* in a grid of the given side
CellOffset(i, side) ==
  <<((i - 1) % side) * CellSize[1], ((i - 1) \div side) * CellSize[2]>>

\* C9: with no atlas size specified, create_atlas builds one atlas of
\* gridSide = ceil(sqrt(N)) cells a side, a canvas of gridSide * the cell size,
\* and places input i, in input order, at column i mod gridSide and row
\* i div gridSide; the cell size is the size of the first non-failed image.
C9_GridLayout ==
  AtlasDone =>
    LET side == atlas.atlas_width
    IN /\ atlas.atlas_height = side
       /\ side * side >= NumInputs
       /\ (side - 1) * (side - 1) < NumInputs
       /\ atlas.montage.size = <<side * CellSize[1], side * CellSize[2]>>
       /\ Len(atlas.montage.pastes) = NumInputs
       /\ \A i \in 1..NumInputs :
            /\ atlas.montage.pastes[i].offset = CellOffset(i, side)
            /\ atlas.montage.pastes[i].image =
                 IF Failed(i) THEN atlas.default_image
                 ELSE atlas.images_with_statuses[i][1]

\* five inputs, the first one failed: a 3 x 3 grid whose fifth image sits in
\* the middle cell, one cell right and one cell down
C9_Witness ==
  /\ AtlasDone
  /\ NumInputs = 5
  /\ Failed(1)
  /\ atlas.atlas_width = 3
  /\ atlas.montage.size = <<3 * CellSize[1], 3 * CellSize[2]>>
  /\ CellSize[1] # CellSize[2]
  /\ atlas.montage.pastes[5].offset = <<CellSize[1], CellSize[2]>>
  /\ atlas.montage.pastes[5].image = atlas.images_with_statuses[5][1]

\* C10: the manifest has exactly one entry per input, in input order; entry i
\* has image_name = basename(img_src_paths[i]), source_image =
\* img_src_paths[i] and the offsets of cell i; it has the key 'errors' if and
\* only if result i is a failure, and then 'errors' is that result's reason.
C10_Manifest ==
  AtlasDone =>
    /\ Len(atlas.manifest) = NumInputs
    /\ \A i \in 1..NumInputs :
         LET entry == atlas.manifest[i]
             path == atlas.img_src_paths[i]
         IN /\ entry.source_image = path
            /\ entry.image_name = path[Len(path)]
            /\ <<entry.offset_x, entry.offset_y>> = CellOffset(i, atlas.atlas_width)
            /\ ("errors" \in DOMAIN entry) <=> Failed(i)
            /\ Failed(i) => entry.errors = atlas.images_with_statuses[i][2]

\* a manifest of four entries: two failures with different reasons, two
\* successes, two sources of the same name in different directories
C10_Witness ==
  /\ AtlasDone
  /\ NumInputs = 4
  /\ "errors" \in DOMAIN atlas.manifest[1]
  /\ "errors" \notin DOMAIN atlas.manifest[2]
  /\ "errors" \in DOMAIN atlas.manifest[4]
  /\ atlas.manifest[1].errors # atlas.manifest[4].errors
  /\ atlas.manifest[4].errors = atlas.images_with_statuses[4][2]
  /\ atlas.manifest[1].image_name = atlas.manifest[4].image_name
  /\ atlas.manifest[1].source_image # atlas.manifest[4].source_image
  /\ <<atlas.manifest[4].offset_x, atlas.manifest[4].offset_y>> = CellSize

\* the three conditions on the arguments of the SpriteAtlasGenerator constructor
LenMismatch == Len(atlas.img_src_paths) # NumInputs
AllFailed == \A i \in 1..NumInputs : Failed(i)
SizeMismatch ==
  /\ ~AllFailed
  /\ \E i \in 1..NumInputs :
       ~Failed(i) /\ atlas.images_with_statuses[i][1].size # CellSize

\* C12: constructing SpriteAtlasGenerator raises ValueError, and no atlas is
\* created, exactly when the number of results differs from the number of
\* source paths, or a non-failed image's size differs from that of the first
\* non-failed image, or every result is a failure (the empty list included).
C12_ConstructorValidation ==
  atlas.pc \notin {"idle", "new"} =>
    LET invalid == LenMismatch \/ SizeMismatch \/ AllFailed
    IN /\ invalid <=> (atlas.pc = "raised" /\ atlas.exc = "ValueError")
       /\ invalid => atlas.montage = None /\ atlas.manifest = <<>>
       /\ ~invalid => \/ atlas.pc \in {"ready", "loop", "done"}
                      \/ atlas.pc = "raised" /\ atlas.exc = "NotImplementedError"

\* equally many results and paths, the first result a failure, and a later
\* image of another size than the first image: ValueError
C12_Witness ==
  /\ atlas.pc = "raised"
  /\ atlas.exc = "ValueError"
  /\ NumInputs = 3
  /\ ~LenMismatch
  /\ Failed(1)
  /\ ~Failed(2)
  /\ ~Failed(3)
  /\ SizeMismatch

\* C13: whenever an atlas width and/or an atlas height is given in the atlas
\* settings, create_atlas raises NotImplementedError: it never goes on to
\* build the default square atlas.
C13_ExplicitSizeRejected ==
  (atlas.pc \in {"loop", "done"})
    => /\ atlas.atlas_settings.width = None
       /\ atlas.atlas_settings.height = None

\* rectangles <<x, y, w, h>>: the one a paste draws into, the one of grid cell
\* k (cells count from 1), and whether two of them share a pixel
PasteRect(p) == <<p.offset[1], p.offset[2], p.image.size[1], p.image.size[2]>>
CellRect(k) ==
  LET o == CellOffset(k, atlas.atlas_width)
  IN <<o[1], o[2], CellSize[1], CellSize[2]>>
Overlap(r, q) ==
  /\ r[1] < q[1] + q[3]
  /\ q[1] < r[1] + r[3]
  /\ r[2] < q[2] + q[4]
  /\ q[2] < r[2] + r[4]

\* C18: after create_atlas on any inputs the constructor accepts, every unused
\* grid cell (index N and above, counted from 0) still holds the white
\* background: no image and no default image is drawn into it.
C18_UnusedCellsKeepBackground ==
  AtlasDone =>
    /\ atlas.montage.bg = <<255, 255, 255, 255>>
    /\ \A k \in (NumInputs + 1)..(atlas.atlas_width * atlas.atlas_height) :
         \A j \in 1..Len(atlas.montage.pastes) :
           ~Overlap(PasteRect(atlas.montage.pastes[j]), CellRect(k))

\* the constraints on the arguments of ImageConvertSettings(...) that the
\* arguments at hand violate: "anchor" (a position component outside [0, 1]),
\* "color" (R, G, B or the opacity outside [0, 255]), "width" and "height"
\* (below 10)
Violated ==
  {c \in {"anchor", "color", "width", "height"} :
     \/ c = "anchor" /\ \E k \in 1..2 : settings_args.position[k] \notin 0..PosDen
     \/ c = "color" /\ \/ \E k \in 1..3 : settings_args.bg_color_rgb[k] \notin 0..255
                       \/ settings_args.opacity \notin 0..255
     \/ c = "width" /\ settings_args.width < 10
     \/ c = "height" /\ settings_args.height < 10}

\* the constructor of ImageConvertSettings has returned or raised
SettingsConstructed == cpc \notin {"idle", "args"}

\* C15: constructing ImageConvertSettings succeeds if and only if every
\* position component is in [0, 1], every background channel (R, G, B,
\* opacity) is in [0, 255], width >= 10 and height >= 10; otherwise it raises
\* ValueError and no settings object is obtained.
C15_SettingsValidIff ==
  SettingsConstructed =>
    IF Violated = {}
      THEN /\ cpc # "ValueError"
           /\ settings.valid
           /\ settings.width = settings_args.width
           /\ settings.height = settings_args.height
      ELSE /\ cpc = "ValueError"
           /\ settings = NoSettings

\* a height of 9 with everything else valid: ValueError, no settings
C15_Witness ==
  /\ cpc = "ValueError"
  /\ settings = NoSettings
  /\ Violated = {"height"}
  /\ settings_args.height = 9
  /\ settings_args.width = 10

\* the constraint a message of the error speaks of
NamedBy(msg) ==
  CASE msg = "Position must be a percent of width/height with values ranging from 0 to 1.\n"
         -> "anchor"
    [] msg = "RGB and opacity values must be between (0, 255).\n" -> "color"
    [] msg = "Desired width must be greater than 10 pixels.\n" -> "width"
    [] msg = "Desired height must be greater than 10 pixels.\n" -> "height"
    [] OTHER -> "none"

\* C16: when several settings constraints are violated at once,
\* ImageConvertSettings raises one error whose message list names every
\* violated constraint, for every subset of {anchor, color/opacity, width,
\* height}, and names no constraint that is not violated.
C16_AllViolationsListed ==
  (SettingsConstructed /\ Violated # {})
    => /\ cpc = "ValueError"
       /\ {NamedBy(error_messages[k]) : k \in DOMAIN error_messages} = Violated

\* _check_src_list_dups has returned or raised
CheckedDups == srclist.pc = "done"

\* a location occurs more than once in the list given
HasDuplicate ==
  \E i, j \in DOMAIN srclist.locations :
    i # j /\ srclist.locations[i] = srclist.locations[j]

\* the index of the first occurrence of x in the list given
FirstIndex(x) ==
  CHOOSE i \in DOMAIN srclist.locations :
    /\ srclist.locations[i] = x
    /\ \A j \in 1..(i - 1) : srclist.locations[j] # x

\* xs holds each distinct location of the list given exactly once, in the
\* order of first occurrence
IsFirstOccurrences(xs) ==
  /\ set(xs) = set(srclist.locations)
  /\ \A a, b \in DOMAIN xs : a < b => FirstIndex(xs[a]) < FirstIndex(xs[b])

\* C19: _check_src_list_dups with 'ignore' returns the list unchanged; with
\* 'unique' it returns each distinct location once, in order of first
\* occurrence; with 'fail' it raises ValueError iff the list has a duplicate
\* and otherwise returns the list unchanged; any other name raises ValueError.
C19_DuplicateHandling ==
  CheckedDups =>
    CASE srclist.handle_dups = "ignore"
           -> srclist.exc = "none" /\ srclist.result = srclist.locations
      [] srclist.handle_dups = "unique"
           -> srclist.exc = "none" /\ IsFirstOccurrences(srclist.result)
      [] srclist.handle_dups = "fail"
           -> IF HasDuplicate THEN srclist.exc = "ValueError"
              ELSE srclist.exc = "none" /\ srclist.result = srclist.locations
      [] OTHER -> srclist.exc = "ValueError"

\* 'unique' on a list of four lines whose third repeats the first and whose
\* fourth repeats the second: the two distinct locations, in that order
C19_Witness ==
  /\ CheckedDups
  /\ srclist.handle_dups = "unique"
  /\ Len(srclist.locations) = 4
  /\ srclist.locations[3] = srclist.locations[1]
  /\ srclist.locations[4] = srclist.locations[2]
  /\ srclist.locations[1] # srclist.locations[2]
  /\ srclist.result = <<srclist.locations[1], srclist.locations[2]>>

\* the arguments the generator at hand was constructed with, given to a
\* generator of their own
SecondGenerator ==
  SpriteAtlasGenerator(atlas_call(atlas.images_with_statuses, atlas.img_src_paths,
                                  atlas.atlas_settings, atlas.default_image))

\* C17: assembly is idempotent: every call of create_atlas on a generator
\* returns the atlas and the manifest its first call returned, and these are
\* the atlas and the manifest a second generator constructed from the same
\* results, source paths and default image returns.
C17_AssemblyIdempotent ==
  AtlasDone =>
    /\ \A k \in 1..Len(atlas.returned) : atlas.returned[k] = atlas.returned[1]
    /\ atlas.returned[Len(atlas.returned)] = <<atlas.montage, atlas.manifest>>
    /\ LET other == create_atlas(SecondGenerator, LOAD_TRUNCATED_IMAGES)
       IN /\ other.pc = "done"
          /\ other.returned = <<atlas.returned[1]>>

\* create_atlas has returned twice on a generator of five results, two of
\* them failures, with a manifest that is not empty
C17_Witness ==
  /\ AtlasDone
  /\ Len(atlas.returned) = 2
  /\ NumInputs = 5
  /\ Failed(2)
  /\ Failed(5)
  /\ Len(atlas.returned[2][2]) = 5
  /\ Len(atlas.returned[2][1].pastes) = 5
  /\ atlas.returned[2] = atlas.returned[1]


\* the conversion settings that the flags of the run ask for are invalid: a
\* width or a height below 10, or a colour channel or opacity outside [0, 255]
\* (main() leaves the anchor at its default)
FlagsSettingsInvalid ==
  /\ main.pc # "idle"
  /\ \/ main.flags.image_width < 10
     \/ main.flags.image_height < 10
     \/ main.flags.image_opacity \notin 0..255
     \/ \E k \in 1..3 : main.flags.bg_color_rgb[k] \notin 0..255

\* C20: when the conversion settings are invalid, main() never reads the
\* source list, never creates or probes the output directory, never produces
\* the default image and never fetches or converts an image: its error comes
\* before any of that work.
C20_InvalidSettingsBeforeAnyWork ==
  FlagsSettingsInvalid =>
    /\ main.log = <<>>
    /\ tasks = <<>>
    /\ main.default_img = NoImage


\* main() has gone through the step `what`
MainDid(what) == main.pc # "idle" /\ \E k \in 1..Len(main.log) : main.log[k] = what

\* a default image path is configured
DefaultImageConfigured == main.pc # "idle" /\ main.flags.default_image_path # None

\* the default-image task fails: the location cannot be read, or the image
\* there cannot be decoded or converted with the settings of the run
DefaultImageFails ==
  /\ DefaultImageConfigured
  /\ main.settings # NoSettings
  /\ convert_default_image(main.flags.default_image_path, main.settings, FALSE).exc # "none"

\* the batch has been started, an atlas is being assembled or has been written
BatchOrAtlasStarted ==
  \/ tasks # <<>>
  \/ batch.pc # "idle"
  \/ atlas.pc # "idle"
  \/ MainDid("batch")
  \/ MainDid("save_atlas")
  \/ MainDid("output_manifest")

\* C14: with a default image path configured, main() obtains the default image
\* before it starts the batch; and if fetching or converting the default image
\* fails, main() raises at that step, no batch task is ever started and no
\* atlas or manifest is written.
C14_DefaultImageFailFast ==
  DefaultImageConfigured =>
    /\ BatchOrAtlasStarted => MainDid("default_image") /\ main.default_img # NoImage
    /\ DefaultImageFails /\ MainDid("default_image") =>
         /\ main.pc = "raised"
         /\ main.raised_at = "default_image"
         /\ main.exc # "none"
         /\ main.default_img = NoImage
         /\ ~BatchOrAtlasStarted

\* the default image path names a file that does not exist, the source list
\* has lines to convert: main() has raised IOError at the default image
C14_Witness ==
  /\ main.pc = "raised"
  /\ main.raised_at = "default_image"
  /\ main.exc = "IOError"
  /\ main.flags.default_image_path = LOCAL_MISSING
  /\ Len(main.image_source_list) = MaxBatch
  /\ tasks = <<>>


\* what get_and_convert_image does with line i of the source list when it is
\* the only call of a fresh process, with the settings and flags of the run
PipelineTask(i) ==
  get_and_convert_image(
    task_call(main.image_source_list[i], SideEffect(main.image_source_list[i]),
              main.flags.use_truncated_images, FALSE, main.flags.http_max_retries),
    main.settings, FALSE).out

\* the task of line i fails: it raises or returns no image
PipelineTaskFails(i) ==
  PipelineTask(i).kind = "raised" \/ PipelineTask(i).image = NoImage

\* main() has started a batch in which some tasks fail and at least one succeeds
MixedBatch ==
  /\ MainDid("batch")
  /\ \E i \in 1..Len(main.image_source_list) : PipelineTaskFails(i)
  /\ \E i \in 1..Len(main.image_source_list) : ~PipelineTaskFails(i)

\* the atlas and the manifest that main() has at hand are those of the claim:
\* cell i shows the default image where task i fails and the converted image
\* elsewhere; entry i has a non-empty 'errors' where task i fails and no
\* 'errors' elsewhere
AtlasShowsBatch ==
  LET N == Len(main.image_source_list)
  IN /\ Len(atlas.montage.pastes) = N
     /\ Len(atlas.manifest) = N
     /\ \A i \in 1..N :
          /\ atlas.montage.pastes[i].offset = CellOffset(i, atlas.atlas_width)
          /\ atlas.montage.pastes[i].image =
               IF PipelineTaskFails(i) THEN main.default_img
               ELSE PipelineTask(i).image
          /\ \A j \in (i + 1)..N :
               ~Overlap(PasteRect(atlas.montage.pastes[j]),
                        PasteRect(atlas.montage.pastes[i]))
          /\ IF PipelineTaskFails(i)
               THEN /\ "errors" \in DOMAIN atlas.manifest[i]
                    /\ atlas.manifest[i].errors # ""
               ELSE "errors" \notin DOMAIN atlas.manifest[i]

\* C11: for a batch of N locations in which some tasks fail and at least one
\* succeeds, the pipeline goes on to the atlas (neither the batch nor the
\* assembly ends with an exception), and the assembled atlas shows the default
\* image in the cell of every failed index and the converted image in every
\* other cell; every failed index's manifest entry has a non-empty error
\* string and no other entry has an error field.
C11_BatchToleranceEndToEnd ==
  MixedBatch =>
    /\ main.pc # "raised"
    /\ AtlasDone => AtlasShowsBatch


\* the retry parameters of the call of get_image are invalid
InvalidRetryParameters ==
  /\ fetch.pc # "idle"
  /\ fetch.http_max_retries < 1 \/ fetch.http_retry_interval < 0

\* C21: with http_max_retries < 1 or http_retry_interval < 0, get_image raises
\* ValueError before any attempt: it never reaches the request loop, the final
\* request or the read of the local file, for URL and local locations alike.
C21_InvalidRetryParametersRejected ==
  InvalidRetryParameters =>
    /\ fetch.pc \in {"enter", "done"}
    /\ fetch.call_count = 0
    /\ fetch.slept = 0
    /\ fetch.image = NoImage
    /\ fetch.pc = "done" => fetch.raised = "ValueError"

\* a local file that exists, a valid retry count and an interval of -1:
\* ValueError, the file is not opened
C21_Witness ==
  /\ fetch.pc = "done"
  /\ fetch.location = LOCAL_A
  /\ fetch.http_max_retries = 2
  /\ fetch.http_retry_interval = -1
  /\ fetch.raised = "ValueError"
  /\ fetch.image = NoImage


\* the one invocation that SpecTask follows has ended
TaskEnded == Len(tasks) = 1 /\ tasks[1].pc = "done"

\* C22: every invocation of get_and_convert_image eventually completes with a
\* result, the tuple (image, '') or (None, reason), and makes no more than
\* http_max_retries HTTP attempts on the way, for every pattern of timeouts and
\* errors of the attempts.  (Stated for the invocations with disk_cache off.)
C22_TaskCompletesWithResult ==
  /\ [](fetch.pc # "idle" => fetch.call_count <= Max(fetch.http_max_retries, 0))
  /\ (Len(tasks) = 1 /\ ~tasks[1].disk_cache)
       => <>(TaskEnded /\ tasks[1].out.kind = "returned")


\* convert() has been called on the converter and has ended
Converted == cpc = "converted"

\* the source as it was given to the converter, and the target of the settings
SourceSize == orig_before.size
TargetSize == <<settings.width, settings.height>>
SameFormat ==
  \/ orig_before.format = "PNG" /\ settings.format \in {"png", "PNG"}
  \/ orig_before.format = "JPEG" /\ settings.format \in {"jpeg", "JPEG"}
TargetLargerInBoth ==
  TargetSize[1] > SourceSize[1] /\ TargetSize[2] > SourceSize[2]

\* the strategy that the priority of the claim selects
SelectedStrategy ==
  IF SourceSize = TargetSize /\ SameFormat THEN "noop"
  ELSE IF TargetLargerInBoth
    THEN IF ~settings.resize_if_larger THEN "pad"
         ELSE IF settings.preserve_aspect_ratio THEN "upscale_pad"
         ELSE "upscale_stretch"
  ELSE IF settings.preserve_aspect_ratio THEN "shrink_pad"
  ELSE "shrink_crop"

\* C23: convert() takes exactly the strategy that this priority selects:
\* (1) same size and same format: the source is returned unchanged; (2) target
\* strictly larger in both dimensions: pad-only, upscale keeping the aspect
\* ratio, or stretch, by resize_if_larger and preserve_aspect_ratio;
\* (3) otherwise shrink-and-pad or crop-and-scale by preserve_aspect_ratio.
C23_StrategySelection ==
  Converted =>
    /\ converted.branch = SelectedStrategy
    /\ converted.branch = "noop" => converted.image = orig_before
    /\ converted.branch \in {"pad", "upscale_pad", "shrink_pad"}
         => converted.image.pixels \in {"canvas", "fit"}
    /\ converted.branch \in {"upscale_stretch", "shrink_crop"}
         => converted.image.pixels = "fit"

\* a JPEG that already has the target size, for a png target with
\* resize_if_larger set: it is not returned as it is, it goes through the
\* shrink-and-pad branch
C23_Witness ==
  /\ Converted
  /\ SourceSize = TargetSize
  /\ orig_before.format = "JPEG"
  /\ settings.resize_if_larger
  /\ converted.branch = "shrink_pad"
  /\ converted.image # orig_before


\* convert() has returned from the aspect-preserving shrink branch
ShrunkAndPadded ==
  Converted /\ converted.branch = "shrink_pad" /\ converted.raised = "none"

\* where the shrunk image was pasted and its size
PastedOffset == <<converted.image.box[1], converted.image.box[2]>>
PastedSize == <<converted.image.box[3], converted.image.box[4]>>

\* C24: in the aspect-preserving shrink branch the shrunk image is no wider and
\* no higher than the target, it is pasted at (round((targetW - shrunkW) * ax),
\* round((targetH - shrunkH) * ay)) for the anchor (ax, ay), it lies entirely
\* inside the canvas, anchor 0 puts it flush to the top/left edge and anchor 1
\* flush to the bottom/right edge.
C24_ShrunkImageInsideCanvas ==
  ShrunkAndPadded =>
    \A k \in 1..2 :
      LET a == settings.position[k]
          slack == TargetSize[k] - PastedSize[k]
      IN /\ PastedSize[k] >= 1
         /\ PastedSize[k] <= TargetSize[k]
         /\ PastedSize[k] <= SourceSize[k]
         /\ 2 * PosDen * PastedOffset[k] >= 2 * slack * a - PosDen
         /\ 2 * PosDen * PastedOffset[k] <= 2 * slack * a + PosDen
         /\ PastedOffset[k] >= 0
         /\ PastedOffset[k] + PastedSize[k] <= TargetSize[k]
         /\ a = 0 => PastedOffset[k] = 0
         /\ a = PosDen => PastedOffset[k] + PastedSize[k] = TargetSize[k]

\* a source higher than the target, anchor (1, 1): the shrunk image is narrower
\* than the canvas and sits against its right edge, all of the padding on its
\* left
C24_Witness ==
  /\ ShrunkAndPadded
  /\ settings.position = <<PosDen, PosDen>>
  /\ SourceSize[2] > TargetSize[2]
  /\ PastedSize[1] < TargetSize[1]
  /\ PastedOffset[1] > 1
  /\ PastedOffset[1] + PastedSize[1] = TargetSize[1]
  /\ PastedOffset[2] = 0


\* convert() has returned from the aspect-preserving upscale branch
UpscaledKeepingRatio ==
  Converted /\ converted.branch = "upscale_pad" /\ converted.raised = "none"

\* the size the source was scaled to, and where the scaled image was put on
\* the canvas (the scaled image is itself the result when it has the target
\* size)
ScaledSize ==
  IF converted.image.pixels = "fit" THEN converted.image.size ELSE PastedSize
ScaledOffset ==
  IF converted.image.pixels = "fit" THEN <<0, 0>> ELSE PastedOffset

\* round(s * min(tw/sw, th/sh)) for s = sw (k = 1) or sh (k = 2)
RatioScaled(k) ==
  LET byWidth == TargetSize[1] * SourceSize[2] <= TargetSize[2] * SourceSize[1]
  IN IF byWidth THEN round(SourceSize[k] * TargetSize[1], SourceSize[1])
     ELSE round(SourceSize[k] * TargetSize[2], SourceSize[2])

\* C25: in the upscale branch with preserve_aspect_ratio the scaled image has
\* size (round(sw * r), round(sh * r)) with r = min(tw/sw, th/sh): the source's
\* own aspect ratio, neither dimension above the target and one equal to it;
\* it is then centred on the target canvas.
C25_UpscaleKeepsAspectRatio ==
  UpscaledKeepingRatio =>
    /\ ScaledSize = <<RatioScaled(1), RatioScaled(2)>>
    /\ ScaledSize[1] <= TargetSize[1]
    /\ ScaledSize[2] <= TargetSize[2]
    /\ ScaledSize[1] = TargetSize[1] \/ ScaledSize[2] = TargetSize[2]
    /\ \A k \in 1..2 :
         /\ 2 * ScaledOffset[k] >= TargetSize[k] - ScaledSize[k] - 1
         /\ 2 * ScaledOffset[k] <= TargetSize[k] - ScaledSize[k] + 1


\* convert() has returned from the padding-only branch
PaddedOnly ==
  Converted /\ converted.branch = "pad" /\ converted.raised = "none"

\* C26: in the padding-only branch the unscaled source is centre-padded: the
\* whole source is on the canvas of the target size, centred (to the pixel
\* that rounding allows) and surrounded by the background colour, wherever
\* the anchor is.
C26_PadOnlyCentres ==
  PaddedOnly =>
    /\ converted.image.size = TargetSize
    /\ converted.image.bg = settings.bg_color
    /\ PastedSize = SourceSize
    /\ \A k \in 1..2 :
         /\ PastedOffset[k] >= 0
         /\ PastedOffset[k] + PastedSize[k] <= TargetSize[k]
         /\ 2 * PastedOffset[k] >= TargetSize[k] - PastedSize[k] - 1
         /\ 2 * PastedOffset[k] <= TargetSize[k] - PastedSize[k] + 1


\* C27: convert() leaves the image object it was given as it was: after the
\* call, in every branch, the source has the size and the content it had
\* before.
C27_SourceUntouched ==
  Converted => orig_img = orig_before


\* the examples that _ParseExample has been applied to, in order
Parsed == overview.examples
ParsedAll == overview.pc = "parse" /\ overview.exc = "none"

\* feature f is present in example ex, and f's values in ex: those of its
\* tf.Feature followed by those of the features of its tf.FeatureList
PresentIn(ex, f) == f \in DOMAIN ex.features \/ f \in DOMAIN ex.feature_lists
RECURSIVE Flattened(_)
Flattened(feats) ==
  IF feats = <<>> THEN <<>> ELSE feats[1].value \o Flattened(Tail(feats))
ValuesIn(ex, f) ==
  (IF f \in DOMAIN ex.features THEN ex.features[f].value ELSE <<>>)
    \o (IF f \in DOMAIN ex.feature_lists THEN Flattened(ex.feature_lists[f]) ELSE <<>>)
RECURSIVE ValuesUpTo(_, _)
ValuesUpTo(f, n) ==
  IF n = 0 THEN <<>> ELSE ValuesUpTo(f, n - 1) \o ValuesIn(Parsed[n], f)

\* the kinds of value lists that f has in example ex
KindsIn(ex, f) ==
  (IF f \in DOMAIN ex.features THEN {ex.features[f].kind} ELSE {})
    \cup (IF f \in DOMAIN ex.feature_lists
            THEN {ex.feature_lists[f][k].kind : k \in 1..Len(ex.feature_lists[f])}
          ELSE {})

\* some feature has values of two types in the examples parsed
TypeMismatch ==
  \E f \in {FeatureNames[k] : k \in 1..Len(FeatureNames)} :
    Cardinality(UNION {KindsIn(Parsed[i], f) : i \in 1..Len(Parsed)} \ {"none"}) > 1

\* C29: after _ParseExample has been applied to examples 0..n-1 in order from
\* empty entries, for every feature f in entries: 'missing' is the number of
\* those examples in which f is absent or has no values, the length of
\* 'counts' is the number of examples in which f is present, and 'vals' is the
\* concatenation of f's values in example order; and TypeError is raised when
\* a feature's value type differs from the type recorded earlier.
C29_EntriesSummariseExamples ==
  /\ overview.pc = "parse" => (overview.exc = "TypeError" <=> TypeMismatch)
  /\ ParsedAll =>
       \A f \in DOMAIN overview.entries :
         LET n == Len(Parsed)
             e == overview.entries[f]
         IN /\ e.missing =
                 Cardinality({i \in 1..n : ~PresentIn(Parsed[i], f) \/ ValuesIn(Parsed[i], f) = <<>>})
            /\ Len(e.counts) = Cardinality({i \in 1..n : PresentIn(Parsed[i], f)})
            /\ e.vals = ValuesUpTo(f, n)

\* _GetEntries has returned (entries, index)
GetEntriesReturned == overview.pc = "returned"

\* the records of the files, as <<file, record>> positions in file order then
\* record order
RECURSIVE RecordsInOrder(_, _)
RecordsInOrder(paths, k) ==
  IF k > Len(paths) THEN <<>>
  ELSE [r \in 1..Len(paths[k]) |-> <<k, r>>] \o RecordsInOrder(paths, k + 1)

TotalRecords == Len(RecordsInOrder(overview.paths, 1))

\* C28: _GetEntries loads at most max_entries examples: the returned count is
\* min(max_entries, total number of records in the files), the records are
\* parsed in file order then record order, and no record after the
\* max_entries-th is parsed.
C28_AtMostMaxEntries ==
  overview.pc \in {"files", "records", "returned", "raised"} =>
    /\ Len(overview.parsed) <= overview.max_entries
    /\ overview.parsed = SubSeq(RecordsInOrder(overview.paths, 1), 1, Len(overview.parsed))
    /\ GetEntriesReturned =>
         /\ overview.index = Min(overview.max_entries, TotalRecords)
         /\ Len(overview.parsed) = overview.index


\* the rectangle <<x, y, w, h>> of the cell that input i was placed in: the
\* offset of its paste and the cell size
PlacedCell(i) ==
  LET o == atlas.montage.pastes[i].offset
  IN <<o[1], o[2], atlas.img_width_height_px[1], atlas.img_width_height_px[2]>>

\* rectangle r lies inside a canvas of the given size
InsideCanvas(r, size) ==
  /\ 0 <= r[1]
  /\ 0 <= r[2]
  /\ r[1] + r[3] <= size[1]
  /\ r[2] + r[4] <= size[2]

\* C30: layout of _create_single_atlas: for every N >= 1 that the constructor
\* accepts, each of the N inputs is placed exactly once (the grid has at
\* least N cells, no input is dropped), the cell rectangles of two different
\* indexes never overlap, and every cell rectangle lies inside the canvas.
C30_LayoutInvariant ==
  AtlasDone =>
    /\ NumInputs >= 1
    /\ atlas.atlas_width * atlas.atlas_height >= NumInputs
    /\ Len(atlas.montage.pastes) = NumInputs
    /\ Len(atlas.manifest) = NumInputs
    /\ \A i \in 1..NumInputs :
         /\ atlas.manifest[i].source_image = atlas.img_src_paths[i]
         /\ InsideCanvas(PlacedCell(i), atlas.montage.size)
         /\ \A j \in 1..NumInputs :
              i # j => ~Overlap(PlacedCell(i), PlacedCell(j))

\* five inputs in cells of 10 x 12 pixels: the last one, a failed image, has
\* the middle cell of a canvas of 30 x 36 pixels, the fourth the cell left of
\* it
C30_Witness ==
  /\ AtlasDone
  /\ NumInputs = 5
  /\ Failed(5)
  /\ ~Failed(4)
  /\ atlas.montage.size = <<30, 36>>
  /\ PlacedCell(4) = <<0, 12, 10, 12>>
  /\ PlacedCell(5) = <<10, 12, 10, 12>>

====
